---------------------------- MODULE Spec2Model ----------------------------
(***************************************************************************)
(* Voice-activity / barge-in engine of the hands-free voice assistant      *)
(* (src/app.py): FixedAdvancedVAD and the FixedHandsFreeSession that hosts *)
(* it.                                                                     *)
(*                                                                         *)
(* Units.  Timestamps are integer milliseconds (the code holds float       *)
(* seconds and multiplies every difference by 1000 before comparing it     *)
(* with a *_ms setting).  Amplitudes are integers in units of 1e-4, so     *)
(* 0.015 is 150 and 0.05 is 500.  Means and products are kept as exact     *)
(* fractions num/den and compared by cross-multiplication.                 *)
(* Arithmetic is exact: where the code's float subtraction lands a hair    *)
(* under a setting it equals on paper (0.3 s computed as 299.99.. ms), the *)
(* code takes the step one chunk later than the model does.                *)
(***************************************************************************)
EXTENDS Integers, Sequences, FiniteSets, TLC

VARIABLES
    now,        \* time.time(), in ms
    vad,        \* the FixedAdvancedVAD instance
    result,     \* the dict returned by the latest process_chunk call
    prev,       \* the VAD as it was when the latest process_chunk call began
    chunks,     \* number of chunks processed so far
    hist,       \* observations over the chunk history (not program state)
    session,    \* the FixedHandsFreeSession that owns the VAD
    tasks,      \* the pipeline tasks the session has created, oldest first
    handler,    \* where the websocket endpoint's coroutine stands
    events,     \* the messages sent to the client, oldest first
    client,     \* the ElevenLabsWebSocketClient (src/websocket_client.py)
    player      \* the AudioHandler's playback side (src/audio_handler.py)

vars == <<now, vad, result, prev, chunks, hist, session, tasks, handler, events,
          client, player>>

\* the desktop assistant's objects, which the web session never touches
peers == <<client, player>>

\* the variables the VAD's own methods never touch
sessvars == <<session, tasks, handler, events, peers>>

-----------------------------------------------------------------------------
(* Bounds of the model *)

\* number of chunks a run of the speech driver feeds
MaxChunks == 4
\* number of chunks a run of the interruption driver feeds
MaxInterruptChunks == 3
\* number of chunks a run of the speaking-turn driver feeds
MaxTurnChunks == 4
\* value of time.time() when the VAD is constructed
Epoch == 100000
\* length of the background-noise lead-in that Init may feed
LeadInChunks == 20

\* gaps between chunk arrivals, ms: the speech driver's and the interruption
\* driver's
Gaps == {200, 300, 800}
InterruptGaps == {500, 1000}
TurnGaps == {300, 500, 1000}
\* raw chunk amplitudes: silence, speech below the interrupt threshold, loud
Amplitudes == {0, 200, 500}
InterruptAmplitudes == {0, 500}
\* amplitude of the background-noise lead-in (0.01)
LeadInAmplitude == 100
\* the happy-path run starts this many ms after Epoch, at most
MaxStartOffset == 4

-----------------------------------------------------------------------------
(* Configuration *)

HANDS_FREE_CONFIG ==
    [ audio_chunk_duration_ms        |-> 100,
      vad_threshold                  |-> 150,
      vad_hang_time_ms               |-> 800,
      vad_attack_time_ms             |-> 300,
      min_speech_duration_ms         |-> 600,
      interrupt_threshold            |-> 250,
      interrupt_confirmation_ms      |-> 500,
      interrupt_cooldown_ms          |-> 1000,
      interrupt_min_speaking_time_ms |-> 1000,
      echo_suppression_duration_ms   |-> 2000,
      echo_suppression_factor        |-> [num |-> 3, den |-> 10],
      audio_buffer_size              |-> 50 ]

ConversationState ==
    { "initializing", "listening", "speech_detected", "processing",
      "speaking", "interrupted", "error", "paused" }

SPEAKING == "speaking"
LISTENING == "listening"

-----------------------------------------------------------------------------
(* Helpers *)

RECURSIVE SumSeq(_)
SumSeq(s) == IF s = <<>> THEN 0 ELSE Head(s) + SumSeq(Tail(s))

\* collections.deque(maxlen=n).append(x)
DequeAppend(s, x, maxlen) ==
    IF Len(s) < maxlen THEN Append(s, x) ELSE Append(Tail(s), x)

\* sum(sorted(s)[:k]): every value v contributes as many copies as fall within
\* the first k places of the sorted order
SumLowest(s, k) ==
    LET vals == { s[i] : i \in DOMAIN s }
        below(v) == Cardinality({ i \in DOMAIN s : s[i] < v })
        equal(v) == Cardinality({ i \in DOMAIN s : s[i] = v })
        taken(v) == IF k - below(v) <= 0 THEN 0
                    ELSE IF k - below(v) >= equal(v) THEN equal(v)
                    ELSE k - below(v)
        RECURSIVE total(_)
        total(S) == IF S = {} THEN 0
                    ELSE LET v == CHOOSE x \in S : TRUE
                         IN  v * taken(v) + total(S \ {v})
    IN  total(vals)

-----------------------------------------------------------------------------
(* FixedAdvancedVAD *)

\* FixedAdvancedVAD.__init__
VADInit ==
    [ threshold                      |-> HANDS_FREE_CONFIG.vad_threshold,
      hang_time_ms                   |-> HANDS_FREE_CONFIG.vad_hang_time_ms,
      attack_time_ms                 |-> HANDS_FREE_CONFIG.vad_attack_time_ms,
      interrupt_threshold            |-> HANDS_FREE_CONFIG.interrupt_threshold,
      interrupt_confirmation_ms      |-> HANDS_FREE_CONFIG.interrupt_confirmation_ms,
      interrupt_cooldown_ms          |-> HANDS_FREE_CONFIG.interrupt_cooldown_ms,
      interrupt_min_speaking_time_ms |-> HANDS_FREE_CONFIG.interrupt_min_speaking_time_ms,
      is_speech_active               |-> FALSE,
      speech_start_time              |-> 0,
      last_speech_time               |-> 0,
      potential_speech_start         |-> 0,
      interrupt_candidate_start      |-> 0,
      last_interrupt_time            |-> 0,
      speaking_start_time            |-> 0,
      interrupt_detection_enabled    |-> FALSE,
      amplitude_window               |-> <<>>,
      long_term_noise                |-> <<>>,
      echo_suppression_until         |-> 0,
      echo_factor                    |-> HANDS_FREE_CONFIG.echo_suppression_factor ]

\* a set_echo_suppression that arms nothing
set_echo_suppression_Unarmed(v, duration_ms, t) == v

\* set_echo_suppression(duration_ms), called at time t
set_echo_suppression(v, duration_ms, t) ==
    [v EXCEPT !.echo_suppression_until = t + duration_ms]

\* an enable that does not record when the assistant began to speak
enable_interrupt_detection_NoStartTime(v, speaking_started, t) ==
    IF speaking_started
    THEN [v EXCEPT !.interrupt_detection_enabled = TRUE,
                   !.interrupt_candidate_start = 0]
    ELSE [v EXCEPT !.interrupt_detection_enabled = FALSE,
                   !.speaking_start_time = 0,
                   !.interrupt_candidate_start = 0]

\* enable_interrupt_detection(speaking_started), called at time t
enable_interrupt_detection(v, speaking_started, t) ==
    IF speaking_started
    THEN [v EXCEPT !.interrupt_detection_enabled = TRUE,
                   !.speaking_start_time = t,
                   !.interrupt_candidate_start = 0]
    ELSE [v EXCEPT !.interrupt_detection_enabled = FALSE,
                   !.speaking_start_time = 0,
                   !.interrupt_candidate_start = 0]

\* disable_interrupt_detection()
disable_interrupt_detection(v) ==
    [v EXCEPT !.interrupt_detection_enabled = FALSE,
              !.speaking_start_time = 0,
              !.interrupt_candidate_start = 0]

\* smooth_amplitude = sum(window) / len(window), as a fraction
SmoothAmplitude(window) ==
    [num |-> SumSeq(window), den |-> Len(window)]

\* fault variant: the threshold never adapts
AdaptiveThreshold_BaseOnly(v, long_term_noise) ==
    [num |-> 40 * v.threshold, den |-> 40]

\* The adaptive threshold as a fraction over 40: with more than 10 samples
\* noise_floor = sum(sorted(noise)[:20]) / 20 and the threshold is
\* max(threshold, noise_floor * 2.5) = max(40 * threshold, 5 * sum) / 40.
AdaptiveThreshold(v, long_term_noise) ==
    IF Len(long_term_noise) > 10
    THEN LET floor20 == SumLowest(long_term_noise, 20)
         IN  [num |-> IF 40 * v.threshold >= 5 * floor20
                      THEN 40 * v.threshold ELSE 5 * floor20,
              den |-> 40]
    ELSE [num |-> 40 * v.threshold, den |-> 40]

\* fault variant: the window's last instant counted as inside it
EchoSuppressed_Inclusive(v, current_time) ==
    current_time <= v.echo_suppression_until

\* is the chunk inside the echo-suppression window?
EchoSuppressed(v, current_time) ==
    current_time < v.echo_suppression_until

\* effective_amplitude: the smoothed amplitude, times echo_factor inside the
\* window
EffectiveAmplitude(v, current_time, smooth) ==
    IF EchoSuppressed(v, current_time)
    THEN [num |-> smooth.num * v.echo_factor.num,
          den |-> smooth.den * v.echo_factor.den]
    ELSE smooth

\* fraction a > fraction b
FracGT(a, b) == a.num * b.den > b.num * a.den

\* fraction a > integer n
FracGTInt(a, n) == a.num > n * a.den

\* has_voice = effective_amplitude > adaptive_threshold
HasVoice(effective, adaptive) == FracGT(effective, adaptive)

\* fault variant: the second voiced chunk confirms whatever the elapsed time
AttackElapsed_NoWait(v, current_time) == TRUE

\* (current_time - potential_speech_start) * 1000 >= attack_time_ms
AttackElapsed(v, current_time) ==
    current_time - v.potential_speech_start >= v.attack_time_ms

\* fault variant: the confirming chunk's time reported as the start
ConfirmedStartTime_Confirming(v, current_time) == current_time

\* the start time a confirmed speech start reports
ConfirmedStartTime(v, current_time) == v.potential_speech_start

\* fault variant: the silence measured from the start of the speech
HangElapsed_FromStart(v, current_time) ==
    current_time - v.speech_start_time >= v.hang_time_ms

\* silence_duration >= hang_time_ms
HangElapsed(v, current_time) ==
    current_time - v.last_speech_time >= v.hang_time_ms

\* speech_duration = (last_speech_time - speech_start_time) * 1000
SpeechDuration(v) == v.last_speech_time - v.speech_start_time

\* fault variant: the minimum duration excluded
ShouldProcess_Strict(speech_duration) ==
    speech_duration > HANDS_FREE_CONFIG.min_speech_duration_ms

\* should_process = speech_duration >= HANDS_FREE_CONFIG["min_speech_duration_ms"]
ShouldProcess(speech_duration) ==
    speech_duration >= HANDS_FREE_CONFIG.min_speech_duration_ms

\* The speech-detection block of process_chunk.  Returns the VAD after it
\* and the keys it adds to the result.
DetectSpeech(v, current_time, has_voice) ==
    LET none == [speech_started |-> FALSE, speech_start_time |-> 0,
                 speech_ended |-> FALSE, speech_duration_ms |-> 0,
                 should_process |-> FALSE]
    IN
    IF has_voice
    THEN IF ~v.is_speech_active
         THEN IF v.potential_speech_start = 0
              THEN [vad |-> [v EXCEPT !.potential_speech_start = current_time,
                                      !.last_speech_time = current_time],
                    out |-> none]
              ELSE IF AttackElapsed(v, current_time)
              THEN [vad |-> [v EXCEPT !.is_speech_active = TRUE,
                                      !.speech_start_time =
                                          ConfirmedStartTime(v, current_time),
                                      !.last_speech_time = current_time],
                    out |-> [none EXCEPT !.speech_started = TRUE,
                                         !.speech_start_time =
                                             ConfirmedStartTime(v, current_time)]]
              ELSE [vad |-> [v EXCEPT !.last_speech_time = current_time],
                    out |-> none]
         ELSE [vad |-> [v EXCEPT !.last_speech_time = current_time],
               out |-> none]
    ELSE IF v.is_speech_active /\ HangElapsed(v, current_time)
         THEN [vad |-> [v EXCEPT !.potential_speech_start = 0,
                                 !.is_speech_active = FALSE],
               out |-> [none EXCEPT !.speech_ended = TRUE,
                                    !.speech_duration_ms = SpeechDuration(v),
                                    !.should_process =
                                        ShouldProcess(SpeechDuration(v))]]
         ELSE [vad |-> [v EXCEPT !.potential_speech_start = 0],
               out |-> none]

\* fault variant: the session state not looked at
InterruptGuard_AnyState(v, current_state, effective) ==
    /\ v.interrupt_detection_enabled
    /\ FracGTInt(effective, v.interrupt_threshold)

\* the guard of the interruption block
InterruptGuard(v, current_state, effective) ==
    /\ current_state = SPEAKING
    /\ v.interrupt_detection_enabled
    /\ FracGTInt(effective, v.interrupt_threshold)

\* fault variant: no cooldown
InCooldown_Never(v, current_time) == FALSE

\* (current_time - last_interrupt_time) * 1000 < interrupt_cooldown_ms
InCooldown(v, current_time) ==
    current_time - v.last_interrupt_time < v.interrupt_cooldown_ms

\* fault variant: no minimum speaking time
SpeakingTooShort_Never(v, current_time) == FALSE

\* (current_time - speaking_start_time) * 1000 < interrupt_min_speaking_time_ms
SpeakingTooShort(v, current_time) ==
    current_time - v.speaking_start_time < v.interrupt_min_speaking_time_ms

\* (current_time - interrupt_candidate_start) * 1000 >= interrupt_confirmation_ms
ConfirmationElapsed(v, current_time) ==
    current_time - v.interrupt_candidate_start >= v.interrupt_confirmation_ms

\* fault variant: the candidate kept across a miss
CandidateAfterMiss_Kept(v) == v.interrupt_candidate_start

\* what the else branch of the interruption block leaves in
\* interrupt_candidate_start
CandidateAfterMiss(v) == 0

\* The interruption block of process_chunk.
DetectInterrupt(v, current_time, current_state, effective) ==
    IF InterruptGuard(v, current_state, effective)
    THEN IF InCooldown(v, current_time)
         THEN [vad |-> v, interrupt_detected |-> FALSE]
         ELSE IF SpeakingTooShort(v, current_time)
         THEN [vad |-> v, interrupt_detected |-> FALSE]
         ELSE IF v.interrupt_candidate_start = 0
         THEN [vad |-> [v EXCEPT !.interrupt_candidate_start = current_time],
               interrupt_detected |-> FALSE]
         ELSE IF ConfirmationElapsed(v, current_time)
         THEN [vad |-> [v EXCEPT !.last_interrupt_time = current_time,
                                 !.interrupt_candidate_start = 0],
               interrupt_detected |-> TRUE]
         ELSE [vad |-> v, interrupt_detected |-> FALSE]
    ELSE [vad |-> [v EXCEPT !.interrupt_candidate_start = CandidateAfterMiss(v)],
          interrupt_detected |-> FALSE]

\* process_chunk(chunk, current_state): the VAD after the call and the result
\* dict (optional keys are present with FALSE / 0 when the code omits them;
\* has_voice is the local variable of that name)
process_chunk(v, current_time, amplitude, current_state) ==
    LET amplitude_window == DequeAppend(v.amplitude_window, amplitude, 5)
        long_term_noise  == DequeAppend(v.long_term_noise, amplitude, 50)
        v1        == [v EXCEPT !.amplitude_window = amplitude_window,
                               !.long_term_noise = long_term_noise]
        smooth    == SmoothAmplitude(amplitude_window)
        adaptive  == AdaptiveThreshold(v1, long_term_noise)
        effective == EffectiveAmplitude(v1, current_time, smooth)
        has_voice == HasVoice(effective, adaptive)
        sp        == DetectSpeech(v1, current_time, has_voice)
        it        == DetectInterrupt(sp.vad, current_time, current_state, effective)
    IN  [ vad |-> it.vad,
          result |->
            [ timestamp           |-> current_time,
              amplitude           |-> amplitude,
              smooth_amplitude    |-> smooth,
              effective_amplitude |-> effective,
              adaptive_threshold  |-> adaptive,
              is_speech_active    |-> v.is_speech_active,
              is_echo_suppressed  |-> EchoSuppressed(v1, current_time),
              current_state       |-> current_state,
              has_voice           |-> has_voice,
              speech_started      |-> sp.out.speech_started,
              speech_start_time   |-> sp.out.speech_start_time,
              speech_ended        |-> sp.out.speech_ended,
              speech_duration_ms  |-> sp.out.speech_duration_ms,
              should_process      |-> sp.out.should_process,
              interrupt_detected  |-> it.interrupt_detected,
              interrupt_amplitude |-> IF it.interrupt_detected
                                      THEN effective ELSE [num |-> 0, den |-> 1] ] ]

-----------------------------------------------------------------------------
(* Observations over the chunk history, used only to state properties *)

NoResult ==
    [ timestamp |-> 0, amplitude |-> 0,
      smooth_amplitude |-> [num |-> 0, den |-> 1],
      effective_amplitude |-> [num |-> 0, den |-> 1],
      adaptive_threshold |-> [num |-> 0, den |-> 1],
      is_speech_active |-> FALSE, is_echo_suppressed |-> FALSE,
      current_state |-> "initializing", has_voice |-> FALSE,
      speech_started |-> FALSE, speech_start_time |-> 0,
      speech_ended |-> FALSE, speech_duration_ms |-> 0,
      should_process |-> FALSE, interrupt_detected |-> FALSE,
      interrupt_amplitude |-> [num |-> 0, den |-> 1] ]

HistInit ==
    [ voiceRunStart   |-> 0,      \* first chunk of the current unbroken run of
                                  \* has_voice chunks, 0 when the run is broken
      lastVoiceAt     |-> 0,      \* latest has_voice chunk
      loudRunStart    |-> 0,      \* first chunk of the current unbroken run of
                                  \* chunks above interrupt_threshold
      qualRunStart    |-> 0,      \* the same for chunks that were also taken in
                                  \* SPEAKING with detection enabled
      lastSpeechEvent |-> "none", \* "started" / "ended"
      numStarted      |-> 0,
      numEnded        |-> 0,
      numInterrupts   |-> 0,
      lastInterruptAt |-> 0,      \* timestamps of the two latest
      prevInterruptAt |-> 0,      \* interrupt_detected results
      lastDuration    |-> 0,      \* speech_duration_ms and should_process of
      lastShouldProcess |-> FALSE ] \* the latest speech_ended result

Observe(h, v, r) ==
    LET loud == FracGTInt(r.effective_amplitude, v.interrupt_threshold)
        qual == loud /\ r.current_state = SPEAKING /\ v.interrupt_detection_enabled
        run(start, on) == IF on THEN (IF start = 0 THEN r.timestamp ELSE start)
                          ELSE 0
    IN  [ voiceRunStart   |-> run(h.voiceRunStart, r.has_voice),
          lastVoiceAt     |-> IF r.has_voice THEN r.timestamp ELSE h.lastVoiceAt,
          loudRunStart    |-> run(h.loudRunStart, loud),
          qualRunStart    |-> run(h.qualRunStart, qual),
          lastSpeechEvent |-> IF r.speech_started THEN "started"
                              ELSE IF r.speech_ended THEN "ended"
                              ELSE h.lastSpeechEvent,
          numStarted      |-> h.numStarted + (IF r.speech_started THEN 1 ELSE 0),
          numEnded        |-> h.numEnded + (IF r.speech_ended THEN 1 ELSE 0),
          numInterrupts   |-> h.numInterrupts
                                + (IF r.interrupt_detected THEN 1 ELSE 0),
          lastInterruptAt |-> IF r.interrupt_detected THEN r.timestamp
                              ELSE h.lastInterruptAt,
          prevInterruptAt |-> IF r.interrupt_detected THEN h.lastInterruptAt
                              ELSE h.prevInterruptAt,
          lastDuration    |-> IF r.speech_ended THEN r.speech_duration_ms
                              ELSE h.lastDuration,
          lastShouldProcess |-> IF r.speech_ended THEN r.should_process
                                ELSE h.lastShouldProcess ]

-----------------------------------------------------------------------------
(* CircularAudioBuffer *)

\* speech_start_index = None
None == -1

Abs(x) == IF x < 0 THEN 0 - x ELSE x

Min(S) == CHOOSE x \in S : \A y \in S : x <= y

\* CircularAudioBuffer.__init__
BufferInit ==
    [ buffer |-> <<>>, speech_start_index |-> None, total_chunks |-> 0 ]

\* the payload of a websocket audio message, named by its arrival time; the
\* payloads fed are never empty
AudioChunk(data, timestamp, amplitude) ==
    [ data |-> data, timestamp |-> timestamp, amplitude |-> amplitude,
      chunk_id |-> 0 ]

add_chunk(b, chunk) ==
    [ b EXCEPT
        !.buffer = DequeAppend(@, [chunk EXCEPT !.chunk_id = b.total_chunks],
                               HANDS_FREE_CONFIG.audio_buffer_size),
        !.total_chunks = @ + 1 ]

\* a buffer that marks the chunk stamped exactly with the timestamp
mark_speech_start_Exact(b, timestamp) ==
    LET hits == { i \in DOMAIN b.buffer : b.buffer[i].timestamp = timestamp }
    IN  IF hits = {} THEN b
        ELSE [b EXCEPT !.speech_start_index = Min(hits) - 1]

\* the first buffered chunk within 150 ms of the timestamp becomes the mark;
\* speech_start_index holds Python's 0-based position
mark_speech_start(b, timestamp) ==
    LET hits == { i \in DOMAIN b.buffer :
                    Abs(b.buffer[i].timestamp - timestamp) < 150 }
    IN  IF hits = {} THEN b
        ELSE [b EXCEPT !.speech_start_index = Min(hits) - 1]

\* b''.join of the payloads from the first chunk not older than the marked
\* one up to the first chunk at or after end_timestamp; <<>> stands for both
\* None and b'', which the caller does not tell apart
extract_speech_segment(b, end_timestamp) ==
    IF b.speech_start_index = None THEN <<>>
    ELSE
        LET start_ts == b.buffer[b.speech_start_index + 1].timestamp
            from == { i \in DOMAIN b.buffer : b.buffer[i].timestamp >= start_ts }
            first == Min(from)
            stops == { i \in from : b.buffer[i].timestamp >= end_timestamp }
            last == IF stops = {} THEN Len(b.buffer) ELSE Min(stops)
            RECURSIVE join(_)
            join(i) == IF i > last THEN <<>>
                       ELSE b.buffer[i].data \o join(i + 1)
        IN  IF from = {} THEN <<>> ELSE join(first)

clear_speech_markers(b) == [b EXCEPT !.speech_start_index = None]

-----------------------------------------------------------------------------
(* FixedHandsFreeSession.  Its methods are written as functions of a world  *)
(* w = [s, v, tk, ev, t]: the session, its VAD, the tasks, the events sent   *)
(* and the value time.time() has while the method runs.  A method runs       *)
(* without interleaving up to the next await of a sleep or of an executor    *)
(* call; the awaited websocket sends are taken to complete at once.         *)

INITIALIZING == "initializing"
SPEECH_DETECTED == "speech_detected"
PROCESSING == "processing"
INTERRUPTED == "interrupted"
PAUSED == "paused"

\* no task: current_processing_task / current_playback_task = None
NoTask == 0

\* FixedHandsFreeSession.__init__
SessionInit ==
    [ state                   |-> INITIALIZING,
      audio_buffer            |-> BufferInit,
      current_processing_task |-> NoTask,
      current_playback_task   |-> NoTask,
      conversation_history    |-> <<>>,
      is_active               |-> TRUE,
      total_exchanges         |-> 0,
      interruptions_count     |-> 0,
      false_positives         |-> 0 ]

\* the endpoint has accepted the socket and is about to create the session
SessionConstructed ==
    /\ session = SessionInit
    /\ tasks = <<>>
    /\ handler = [pc |-> "create_session", chunk_id |-> 0]
    /\ events = <<>>

\* message = {"type", "timestamp"}; message.update(data): a key of data
\* replaces the message's own
_send_event(w, event_type, data) ==
    [w EXCEPT !.ev = Append(@, data @@ [type |-> event_type, timestamp |-> w.t])]

\* an _update_state that leaves the detector alone
_update_state_DetectorKept(w, new_state) ==
    _send_event([w EXCEPT !.s.state = new_state], "state_changed",
                [old_state |-> w.s.state, new_state |-> new_state,
                 timestamp |-> w.t])

_update_state(w, new_state) ==
    LET old_state == w.s.state
        v1 == IF new_state # SPEAKING /\ old_state = SPEAKING
              THEN disable_interrupt_detection(w.v) ELSE w.v
    IN  _send_event([w EXCEPT !.s.state = new_state, !.v = v1],
                    "state_changed",
                    [old_state |-> old_state, new_state |-> new_state,
                     timestamp |-> w.t])

_send_audio_status(w, vad_result) ==
    _send_event(w, "audio_status",
                [amplitude |-> vad_result.amplitude,
                 smooth_amplitude |-> vad_result.smooth_amplitude,
                 is_speech_active |-> vad_result.is_speech_active,
                 is_echo_suppressed |-> vad_result.is_echo_suppressed,
                 state |-> w.s.state,
                 interrupt_detection_enabled |-> w.v.interrupt_detection_enabled])

\* asyncio task states: a task is done once its coroutine has returned or a
\* cancellation has been delivered
TaskDone(task) == task.pc = "done"

\* task.cancel(): the request is delivered when the task next runs
CancelTask(tk, i) ==
    IF i # NoTask /\ ~TaskDone(tk[i])
    THEN [tk EXCEPT ![i].cancelling = TRUE] ELSE tk

\* asyncio.create_task(self._full_processing_pipeline(audio_data, duration_ms))
NewTask(audio_data, duration_ms) ==
    [ pc |-> "created", cancelling |-> FALSE, audio_data |-> audio_data,
      duration_ms |-> duration_ms, total_chunks |-> 0, sent |-> 0 ]

\* a start of the pipeline that leaves the previous task running
_process_speech_segment_NoCancel(w, audio_data, duration_ms) ==
    LET w1 == _update_state(w, PROCESSING)
        w2 == [w1 EXCEPT !.v = disable_interrupt_detection(@)]
    IN  [w2 EXCEPT !.tk = Append(@, NewTask(audio_data, duration_ms)),
                   !.s.current_processing_task = Len(w2.tk) + 1]

_process_speech_segment(w, audio_data, duration_ms) ==
    LET w1 == _update_state(w, PROCESSING)
        w2 == [w1 EXCEPT !.v = disable_interrupt_detection(@)]
        w3 == [w2 EXCEPT !.tk = CancelTask(@, w2.s.current_processing_task)]
    IN  [w3 EXCEPT !.tk = Append(@, NewTask(audio_data, duration_ms)),
                   !.s.current_processing_task = Len(w3.tk) + 1]

\* a handler that clears the echo window before it enters INTERRUPTED
_handle_interruption_EchoClearedFirst(w, vad_result) ==
    LET w1 == [w EXCEPT !.s.interruptions_count = @ + 1]
        w2 == [w1 EXCEPT !.v = disable_interrupt_detection(@)]
        w3 == [w2 EXCEPT !.v.echo_suppression_until = 0]
        w4 == _update_state(w3, INTERRUPTED)
    IN  _send_event(w4, "interrupted",
                    [timestamp |-> vad_result.timestamp,
                     amplitude |-> vad_result.interrupt_amplitude,
                     interruptions_count |-> w4.s.interruptions_count])

\* _handle_interruption up to its await asyncio.sleep(0.1)
_handle_interruption(w, vad_result) ==
    LET w1 == [w EXCEPT !.s.interruptions_count = @ + 1]
        w2 == [w1 EXCEPT !.tk = CancelTask(@, w1.s.current_playback_task)]
        w3 == [w2 EXCEPT !.v = disable_interrupt_detection(@)]
        w4 == _update_state(w3, INTERRUPTED)
    IN  _send_event(w4, "interrupted",
                    [timestamp |-> vad_result.timestamp,
                     amplitude |-> vad_result.interrupt_amplitude,
                     interruptions_count |-> w4.s.interruptions_count])

\* a handler that leaves the echo window as it is
_handle_interruption_resumed_EchoKept(w) == _update_state(w, LISTENING)

\* _handle_interruption after the sleep
_handle_interruption_resumed(w) ==
    LET w1 == _update_state(w, LISTENING)
    IN  [w1 EXCEPT !.v.echo_suppression_until = 0]

\* the speech_started branch of _handle_vad_events
OnSpeechStarted(w, vad_result) ==
    IF vad_result.speech_started /\ w.s.state = LISTENING
    THEN LET w1 == _update_state(w, SPEECH_DETECTED)
             w2 == [w1 EXCEPT !.s.audio_buffer =
                        mark_speech_start(@, vad_result.speech_start_time)]
         IN  _send_event(w2, "speech_detection",
                         [type |-> "started",
                          timestamp |-> vad_result.speech_start_time])
    ELSE w

\* a handler that takes speech_ended in whatever state the session is in
OnSpeechEnded_AnyState(w, vad_result) ==
    IF vad_result.speech_ended
    THEN LET w1 == _send_event(w, "speech_detection",
                        [type |-> "ended",
                         duration_ms |-> vad_result.speech_duration_ms,
                         will_process |-> vad_result.should_process])
             speech_audio == extract_speech_segment(w1.s.audio_buffer,
                                                    vad_result.timestamp)
             w2 == IF vad_result.should_process
                   THEN IF speech_audio # <<>>
                        THEN _process_speech_segment(
                                 w1, speech_audio, vad_result.speech_duration_ms)
                        ELSE _update_state(w1, LISTENING)
                   ELSE _update_state(
                            [w1 EXCEPT !.s.false_positives = @ + 1], LISTENING)
         IN  [w2 EXCEPT !.s.audio_buffer = clear_speech_markers(@)]
    ELSE w

\* a handler that discards a short utterance without counting it
OnSpeechEnded_Uncounted(w, vad_result) ==
    IF vad_result.speech_ended /\ w.s.state = SPEECH_DETECTED
    THEN LET w1 == _send_event(w, "speech_detection",
                        [type |-> "ended",
                         duration_ms |-> vad_result.speech_duration_ms,
                         will_process |-> vad_result.should_process])
             speech_audio == extract_speech_segment(w1.s.audio_buffer,
                                                    vad_result.timestamp)
             w2 == IF vad_result.should_process
                   THEN IF speech_audio # <<>>
                        THEN _process_speech_segment(
                                 w1, speech_audio, vad_result.speech_duration_ms)
                        ELSE _update_state(w1, LISTENING)
                   ELSE _update_state(w1, LISTENING)
         IN  [w2 EXCEPT !.s.audio_buffer = clear_speech_markers(@)]
    ELSE w

\* the speech_ended branch of _handle_vad_events
OnSpeechEnded(w, vad_result) ==
    IF vad_result.speech_ended /\ w.s.state = SPEECH_DETECTED
    THEN LET w1 == _send_event(w, "speech_detection",
                        [type |-> "ended",
                         duration_ms |-> vad_result.speech_duration_ms,
                         will_process |-> vad_result.should_process])
             speech_audio == extract_speech_segment(w1.s.audio_buffer,
                                                    vad_result.timestamp)
             w2 == IF vad_result.should_process
                   THEN IF speech_audio # <<>>
                        THEN _process_speech_segment(
                                 w1, speech_audio, vad_result.speech_duration_ms)
                        ELSE _update_state(w1, LISTENING)
                   ELSE _update_state(
                            [w1 EXCEPT !.s.false_positives = @ + 1], LISTENING)
         IN  [w2 EXCEPT !.s.audio_buffer = clear_speech_markers(@)]
    ELSE w

\* a handler that takes every interrupt_detected for an interruption
Interrupts_AnyState(w, vad_result) == vad_result.interrupt_detected

\* whether _handle_vad_events enters _handle_interruption
Interrupts(w, vad_result) ==
    vad_result.interrupt_detected /\ w.s.state = SPEAKING

\* _handle_vad_events, up to the sleep inside _handle_interruption if it
\* gets there
_handle_vad_events(w, vad_result) ==
    LET w1 == OnSpeechStarted(w, vad_result)
        w2 == OnSpeechEnded(w1, vad_result)
    IN  IF Interrupts(w2, vad_result)
        THEN _handle_interruption(w2, vad_result) ELSE w2

\* the tail of process_audio_chunk: a status message every 20th chunk
StatusDue(w, chunk_id, vad_result) ==
    IF chunk_id % 20 = 0 THEN _send_audio_status(w, vad_result) ELSE w

\* pipeline, from the start of the coroutine to the await of _run_stt
PipelineBegin(w) ==
    _send_event(w, "processing_stage", [stage |-> "stt", status |-> "started"])

\* a history that is never trimmed
HistoryAfterUser_Untrimmed(history, user_text) ==
    Append(history, [role |-> "user", content |-> user_text])

\* messages of gpt_call: the system prompt, then the history as it stands
Messages(history) ==
    <<[role |-> "system", content |-> "prompt"]>> \o history

\* conversation_history.append(...) and the trim of _run_llm
HistoryAfterUser(history, user_text) ==
    LET h == Append(history, [role |-> "user", content |-> user_text])
    IN  IF Len(h) > 8 THEN SubSeq(h, Len(h) - 5, Len(h)) ELSE h

\* text.strip() of the texts the model lets Whisper return
Strip(t) == CASE t = " " -> "" [] t = " a " -> "a" [] OTHER -> t

\* len(text.strip()) of the same texts
StrippedLength(t) ==
    CASE Strip(t) = "" -> 0 [] Strip(t) = "a" -> 1 [] OTHER -> 4

\* a pipeline that stops only for the empty string
EmptyTranscript_OnlyNone(transcript) == transcript = ""

\* not transcript or len(transcript.strip()) < 2
EmptyTranscript(transcript) ==
    transcript = "" \/ StrippedLength(transcript) < 2

\* how a call of the OpenAI client ends: it returns a value or it raises
Returns(value) == [raised |-> FALSE, value |-> value]
Raises == [raised |-> TRUE]

\* what gpt_call returns when the client raises
Apology == "apology"

\* whisper_call: the stripped text, or "" when the client raises
whisper_call(outcome) == IF outcome.raised THEN "" ELSE Strip(outcome.value)

\* gpt_call: the reply, or the apology when the client raises
gpt_call(outcome) == IF outcome.raised THEN Apology ELSE outcome.value

\* tts_call: the audio, here its length in 4096-byte chunks, or b"" when the
\* client raises
tts_call(outcome) == IF outcome.raised THEN 0 ELSE outcome.value

\* pipeline, from the return of _run_stt to the await of the GPT call
AfterSTT(w, transcript) ==
    IF EmptyTranscript(transcript)
    THEN _update_state(w, LISTENING)
    ELSE LET w1 == _send_event(w, "transcription", [text |-> transcript])
             w2 == _send_event(w1, "processing_stage",
                               [stage |-> "llm", status |-> "started"])
         IN  [w2 EXCEPT !.s.conversation_history =
                            HistoryAfterUser(@, transcript)]

\* pipeline, from the return of the GPT call to the await of the TTS call
AfterLLM(w, response) ==
    LET w1 == [w EXCEPT !.s.conversation_history =
                   Append(@, [role |-> "assistant", content |-> response])]
        w2 == _send_event(w1, "llm_response", [text |-> response])
        w3 == _send_event(w2, "processing_stage",
                          [stage |-> "tts", status |-> "started"])
        w4 == _update_state(w3, SPEAKING)
        w5 == [w4 EXCEPT !.v = enable_interrupt_detection(@, TRUE, w4.t)]
    IN  [w5 EXCEPT !.v = set_echo_suppression(
                             @, HANDS_FREE_CONFIG.echo_suppression_duration_ms,
                             w5.t)]

\* _stream_audio_with_interruption: one audio_chunk message
SendAudioChunk(w, chunk_id, total_chunks) ==
    _send_event(w, "audio_chunk",
                [chunk_id |-> chunk_id, total_chunks |-> total_chunks,
                 is_final |-> chunk_id = total_chunks])

\* the end of _stream_audio_with_interruption, of _run_tts_and_play and of the
\* pipeline
AfterPlayback(w, streamed) ==
    LET w1 == IF streamed /\ w.s.state = SPEAKING
              THEN _send_event(w, "tts_complete", [interrupted |-> FALSE])
              ELSE w
        w2 == [w1 EXCEPT !.v = disable_interrupt_detection(@)]
        w3 == [w2 EXCEPT !.s.total_exchanges = @ + 1]
        w4 == _send_event(w3, "processing_complete",
                          [total_exchanges |-> w3.s.total_exchanges])
    IN  _update_state(w4, LISTENING)

\* a cancellation handler that reports the cancellation as an error
OnCancelled_Reported(w) ==
    _update_state(_send_event(w, "error", [message |-> "cancelled"]),
                  LISTENING)

\* a cancellation handler that leaves the state as it finds it
OnCancelled_StateKept(w) == w

\* except asyncio.CancelledError
OnCancelled(w) == _update_state(w, LISTENING)

\* a pause that stops the intake of audio but leaves the state alone
pause_session_StateKept(w) ==
    LET w1 == [w EXCEPT !.s.is_active = FALSE]
        w2 == [w1 EXCEPT !.v = disable_interrupt_detection(@)]
    IN  _send_event(w2, "session_paused", [timestamp |-> w2.t])

pause_session(w) ==
    LET w1 == [w EXCEPT !.s.is_active = FALSE]
        w2 == [w1 EXCEPT !.v = disable_interrupt_detection(@)]
        w3 == _update_state(w2, PAUSED)
    IN  _send_event(w3, "session_paused", [timestamp |-> w3.t])

resume_session(w) ==
    LET w1 == [w EXCEPT !.s.is_active = TRUE]
        w2 == _update_state(w1, LISTENING)
    IN  _send_event(w2, "session_resumed", [timestamp |-> w2.t])

\* close(): the executor shutdown does not wait and stops no call in flight
close(w) ==
    LET w1 == [w EXCEPT !.s.is_active = FALSE]
        w2 == [w1 EXCEPT !.v = disable_interrupt_detection(@)]
        w3 == [w2 EXCEPT !.tk = CancelTask(@, w2.s.current_processing_task)]
        w4 == [w3 EXCEPT !.tk = CancelTask(@, w3.s.current_playback_task)]
    IN  _send_event(w4, "session_stats",
                    [total_exchanges |-> w4.s.total_exchanges,
                     interruptions_count |-> w4.s.interruptions_count,
                     false_positives |-> w4.s.false_positives])

-----------------------------------------------------------------------------
(* The desktop assistant (src/main.py): the ElevenLabs client and the audio *)
(* handler it plays the agent's audio through                               *)

\* ElevenLabsWebSocketClient.__init__.  main is where the application's
\* initialize() stands, handlers are the _message_handler tasks connect()
\* has created, oldest first; attempts observes the reconnect attempts made
\* (not program state)
ClientInit ==
    [ is_connected           |-> FALSE,
      reconnect_attempts     |-> 0,
      max_reconnect_attempts |-> 5,
      main                   |-> "connect",
      handlers               |-> <<>>,
      attempts               |-> <<>> ]

\* 2 ** n
RECURSIVE Pow2(_)
Pow2(n) == IF n = 0 THEN 1 ELSE 2 * Pow2(n - 1)

\* delay = min(2 ** self.reconnect_attempts, 30), in seconds
ReconnectDelay(reconnect_attempts) ==
    IF Pow2(reconnect_attempts) < 30 THEN Pow2(reconnect_attempts) ELSE 30

\* connect(): websockets.connect returned, or something in the try body
\* raised; the except clause swallows whatever it was
connect(c, connected) ==
    IF connected
    THEN [c EXCEPT !.is_connected = TRUE,
                   !.reconnect_attempts = 0,
                   !.handlers = Append(@, [pc |-> "receive", delay |-> 0])]
    ELSE [c EXCEPT !.is_connected = FALSE]

\* _handle_disconnect up to its sleep, in the _message_handler task i
_handle_disconnect(c, i) ==
    IF c.reconnect_attempts < c.max_reconnect_attempts
    THEN [c EXCEPT !.reconnect_attempts = @ + 1,
                   !.handlers[i] =
                       [pc |-> "sleep",
                        delay |-> ReconnectDelay(c.reconnect_attempts + 1)]]
    ELSE [c EXCEPT !.handlers[i].pc = "done"]

\* AudioHandler.__init__, playback side.  A stream is named by the order in
\* which pyaudio.open returned it, 0 is None; closed are the streams close()
\* was called on.  caller is where play_audio stands in the event loop's
\* thread, workers are the playback threads started, oldest first.  written
\* and dropped observe what became of the chunks taken from the queue (not
\* program state)
PlayerInit ==
    [ is_playing     |-> FALSE,
      output_stream  |-> 0,
      playback_queue |-> <<>>,
      opened         |-> 0,
      closed         |-> {},
      caller         |-> "idle",
      workers        |-> <<>>,
      played         |-> 0,
      written        |-> <<>>,
      dropped        |-> {} ]

\* the assistant has constructed both and called neither
PeersConstructed ==
    /\ client = ClientInit
    /\ player = PlayerInit

-----------------------------------------------------------------------------
(* The VAD driven directly: any order of its public methods, the chunk       *)
(* timestamps increasing                                                    *)

\* session states a caller passes to process_chunk
CallerStates == {SPEAKING, LISTENING}

\* the lead-in Init may feed: nothing, or LeadInChunks chunks of background
\* noise at the configured cadence, none of them speech
LeadIns == { <<>>, [i \in 1..LeadInChunks |-> LeadInAmplitude] }

RECURSIVE FeedLeadIn(_, _, _)
FeedLeadIn(v, t, amps) ==
    IF amps = <<>> THEN v
    ELSE LET heard == process_chunk(
                          v, t + HANDS_FREE_CONFIG.audio_chunk_duration_ms,
                          Head(amps), LISTENING)
         IN  \* a chunk is taken in whole before the next one is fed
             IF heard.result.timestamp > t
             THEN FeedLeadIn(heard.vad,
                             t + HANDS_FREE_CONFIG.audio_chunk_duration_ms,
                             Tail(amps))
             ELSE v

\* a VAD that has heard the lead-in
InitAfter(lead) ==
    /\ now = Epoch + Len(lead) * HANDS_FREE_CONFIG.audio_chunk_duration_ms
    /\ vad = FeedLeadIn(VADInit, Epoch, lead)
    /\ result = NoResult
    /\ prev = vad
    /\ chunks = 0
    /\ hist = HistInit
    /\ SessionConstructed
    /\ PeersConstructed

Init == \E lead \in LeadIns : InitAfter(lead)

\* a freshly constructed VAD
InitFresh == InitAfter(<<>>)

\* vad.process_chunk(chunk, current_state) on a chunk arriving gap ms after
\* the previous one
FeedChunk(gap, amplitude, current_state) ==
    LET r == process_chunk(vad, now + gap, amplitude, current_state)
    IN  /\ now' = now + gap
        /\ vad' = r.vad
        /\ result' = r.result
        /\ prev' = vad
        /\ hist' = Observe(hist, vad, r.result)
        /\ chunks' = chunks + 1
        /\ UNCHANGED sessvars

\* a chunk while the caller is LISTENING
ProcessChunk ==
    \E gap \in Gaps, amplitude \in Amplitudes :
        /\ chunks < MaxChunks
        /\ FeedChunk(gap, amplitude, LISTENING)

\* a chunk in whatever state the caller is in
ProcessChunkInState ==
    \E gap \in InterruptGaps, amplitude \in InterruptAmplitudes,
       current_state \in CallerStates :
        /\ chunks < MaxInterruptChunks
        /\ FeedChunk(gap, amplitude, current_state)

\* a chunk while the caller is SPEAKING
ProcessChunkSpeaking ==
    \E gap \in TurnGaps, amplitude \in InterruptAmplitudes :
        /\ chunks < MaxTurnChunks
        /\ FeedChunk(gap, amplitude, SPEAKING)

\* vad.enable_interrupt_detection(speaking_started)
EnableInterruptDetection ==
    \E speaking_started \in BOOLEAN :
        /\ vad' = enable_interrupt_detection(vad, speaking_started, now)
        /\ UNCHANGED <<now, result, prev, chunks, hist>>
        /\ UNCHANGED sessvars

\* vad.disable_interrupt_detection()
DisableInterruptDetection ==
    /\ vad' = disable_interrupt_detection(vad)
    /\ UNCHANGED <<now, result, prev, chunks, hist>>
    /\ UNCHANGED sessvars

\* vad.set_echo_suppression(echo_suppression_duration_ms)
SetEchoSuppression ==
    /\ vad' = set_echo_suppression(
                  vad, HANDS_FREE_CONFIG.echo_suppression_duration_ms, now)
    /\ UNCHANGED <<now, result, prev, chunks, hist>>
    /\ UNCHANGED sessvars

\* speech detection: chunks and the echo window
Next ==
    \/ ProcessChunk
    \/ SetEchoSuppression

Spec == Init /\ [][Next]_vars

\* interruption detection: chunks in any caller state and every control call
NextInterrupt ==
    \/ ProcessChunkInState
    \/ EnableInterruptDetection
    \/ DisableInterruptDetection
    \/ SetEchoSuppression

SpecInterrupt == InitFresh /\ [][NextInterrupt]_vars

\* The happy path: speech_ms of chunks at speech_amplitude, then silence_ms of
\* chunks at silence_amplitude, at the configured cadence, into a fresh VAD.
HappyPath ==
    [ speech_ms |-> 1200, speech_amplitude |-> 500,
      silence_ms |-> 900, silence_amplitude |-> 10 ]

HappySpeechChunks == HappyPath.speech_ms \div HANDS_FREE_CONFIG.audio_chunk_duration_ms
HappySilenceChunks == HappyPath.silence_ms \div HANDS_FREE_CONFIG.audio_chunk_duration_ms

InitHappy ==
    \E offset \in 0..MaxStartOffset :
        /\ now = Epoch + offset
        /\ vad = VADInit
        /\ result = NoResult
        /\ prev = vad
        /\ chunks = 0
        /\ hist = HistInit
        /\ SessionConstructed
        /\ PeersConstructed

HappySpeechChunk ==
    \E current_state \in CallerStates :
        /\ chunks < HappySpeechChunks
        /\ FeedChunk(HANDS_FREE_CONFIG.audio_chunk_duration_ms,
                     HappyPath.speech_amplitude, current_state)

HappySilenceChunk ==
    \E current_state \in CallerStates :
        /\ chunks >= HappySpeechChunks
        /\ chunks < HappySpeechChunks + HappySilenceChunks
        /\ FeedChunk(HANDS_FREE_CONFIG.audio_chunk_duration_ms,
                     HappyPath.silence_amplitude, current_state)

NextHappy ==
    \/ HappySpeechChunk
    \/ HappySilenceChunk

SpecHappy == InitHappy /\ [][NextHappy]_vars

\* The noise window: a fresh VAD hears chunks of one amplitude, as many as
\* the client likes, and then a few more of any of the amplitudes, at the
\* configured cadence, so that the window is short, around 10 and 20
\* samples long, or full.
NoiseAmplitudes == {20, 100, 300}
MaxNoiseRun == 48
MaxNoiseChunks == 3

\* the samples from the first one that differs from the oldest
NoiseTail(window) ==
    LET differs == { i \in DOMAIN window : window[i] # window[1] }
    IN  IF differs = {} THEN 0
        ELSE Len(window) + 1
                 - (CHOOSE i \in differs : \A j \in differs : i <= j)

NoiseChunk ==
    \E amplitude \in NoiseAmplitudes :
        /\ chunks < MaxNoiseRun + MaxNoiseChunks
        /\ NoiseTail(vad.long_term_noise) < MaxNoiseChunks
        /\ FeedChunk(HANDS_FREE_CONFIG.audio_chunk_duration_ms, amplitude,
                     LISTENING)

NextNoise == NoiseChunk

SpecNoise == InitFresh /\ [][NextNoise]_vars

\* speaking turns: the caller stays SPEAKING, turns begin with
\* enable_interrupt_detection(True) and end with disable_interrupt_detection()
NextTurn ==
    \/ ProcessChunkSpeaking
    \/ EnableInterruptDetection
    \/ DisableInterruptDetection

SpecTurn == InitFresh /\ [][NextTurn]_vars

-----------------------------------------------------------------------------
(* The session driven through its websocket endpoint and its pipeline task  *)

\* the world a method starts from when it runs at time t
World(t) == [s |-> session, v |-> vad, tk |-> tasks, ev |-> events, t |-> t]

\* the world a method leaves behind
Commit(w) ==
    /\ session' = w.s
    /\ vad' = w.v
    /\ tasks' = w.tk
    /\ events' = w.ev
    /\ UNCHANGED peers

SetPc(w, i, pc) == [w EXCEPT !.tk[i].pc = pc]

\* await asyncio.sleep(0.1) of _handle_interruption, ms
InterruptSettleMs == 100

\* what the Whisper API may return: nothing, blanks, a single letter, or a
\* transcript
Transcripts == {"", " ", " a ", "text"}
\* what the GPT call returns
Responses == {"reply"}
\* the TTS call returns audio of at most this many 4096-byte chunks
MaxAudioChunks == 2

\* session_manager.create_session: the constructor, then initialize()
CreateSession ==
    /\ handler.pc = "create_session"
    /\ Commit(_send_event(_update_state(World(now), LISTENING),
                          "session_ready",
                          [interrupt_enabled |-> TRUE, echo_suppression |-> TRUE]))
    /\ handler' = [handler EXCEPT !.pc = "receive"]
    /\ UNCHANGED <<now, result, prev, chunks, hist>>

\* a session that takes audio even while it is paused
Ignores_Never(s) == FALSE

\* if not self.is_active: return
Ignores(s) == ~s.is_active

\* a loop that reads on while the call for an earlier message is suspended
receive_json_Unawaited(h) == h.pc \in {"receive", "interrupt_sleep"}

\* message = await websocket.receive_json(): the loop is at its top, which it
\* reaches only when the call it awaited for the message before has returned
receive_json(h) == h.pc = "receive"

\* an audio_chunk message arriving gap ms after the previous one:
\* process_audio_chunk up to its return or to the sleep of _handle_interruption
ReceiveAudio(gap, audio_data, amplitude) ==
    LET t == now + gap
        chunk_id == session.audio_buffer.total_chunks
        w0 == [World(t) EXCEPT !.s.audio_buffer =
                   add_chunk(@, AudioChunk(audio_data, t, amplitude))]
        r == process_chunk(w0.v, t, amplitude, w0.s.state)
        w1 == [w0 EXCEPT !.v = r.vad]
        w2 == _handle_vad_events(w1, r.result)
        sleeping == Interrupts(
                        OnSpeechEnded(OnSpeechStarted(w1, r.result), r.result),
                        r.result)
    IN  /\ receive_json(handler)
        /\ now' = t
        /\ IF Ignores(session)
           THEN UNCHANGED <<vad, result, prev, chunks, hist, sessvars>>
           ELSE /\ result' = r.result
                /\ prev' = vad
                /\ hist' = Observe(hist, vad, r.result)
                /\ chunks' = chunks + 1
                /\ IF sleeping
                   THEN /\ Commit(w2)
                        /\ handler' = [pc |-> "interrupt_sleep",
                                       chunk_id |-> chunk_id]
                   ELSE /\ Commit(StatusDue(w2, chunk_id, r.result))
                        /\ UNCHANGED handler

\* an audio_chunk message whose payload, named by its arrival time, has the
\* amplitude given
ReceiveAudioChunk(gap, amplitude) == ReceiveAudio(gap, <<now + gap>>, amplitude)

\* a decoding that takes the first byte for the high one
from_bytes_BigEndian(b) ==
    LET value == IF Len(b) = 1 THEN b[1] ELSE 256 * b[1] + b[2]
        half == IF Len(b) = 1 THEN 128 ELSE 32768
    IN  IF value >= half THEN value - 2 * half ELSE value

\* int.from_bytes(b, byteorder='little', signed=True), b of one or two bytes
from_bytes(b) ==
    LET value == IF Len(b) = 1 THEN b[1] ELSE b[1] + 256 * b[2]
        half == IF Len(b) = 1 THEN 128 ELSE 32768
    IN  IF value >= half THEN value - 2 * half ELSE value

\* [int.from_bytes(audio_data[i:i+2], ...) for i in range(0, len(audio_data), 2)]
RECURSIVE Samples(_)
Samples(audio_data) ==
    IF Len(audio_data) <= 2
    THEN IF audio_data = <<>> THEN <<>> ELSE <<from_bytes(audio_data)>>
    ELSE <<from_bytes(SubSeq(audio_data, 1, 2))>>
             \o Samples(SubSeq(audio_data, 3, Len(audio_data)))

\* _calculate_amplitude(audio_data), exactly: the value returned is
\* sqrt(sum_squares / samples) / 32768
_calculate_amplitude(audio_data) ==
    IF Len(audio_data) < 2
    THEN [sum_squares |-> 0, samples |-> 1]
    ELSE LET samples == Samples(audio_data)
         IN  [sum_squares |-> SumSeq([i \in DOMAIN samples |->
                                         samples[i] * samples[i]]),
              samples |-> Len(samples)]

\* the largest r in lo..hi with r * r <= x
RECURSIVE RootWithin(_, _, _)
RootWithin(x, lo, hi) ==
    IF lo = hi THEN lo
    ELSE LET mid == (lo + hi + 1) \div 2
         IN  IF mid * mid <= x THEN RootWithin(x, mid, hi)
             ELSE RootWithin(x, lo, mid - 1)

\* the amplitude in the VAD's unit of the model, 1e-4, rounded down
AmplitudeUnits(amplitude) ==
    (RootWithin(amplitude.sum_squares \div amplitude.samples, 0, 32768)
         * 10000) \div 32768

\* the sleep of _handle_interruption is over: the rest of it, and of
\* process_audio_chunk
InterruptionResumes ==
    /\ handler.pc = "interrupt_sleep"
    /\ now' = now + InterruptSettleMs
    /\ Commit(StatusDue(_handle_interruption_resumed(World(now')),
                        handler.chunk_id, result))
    /\ handler' = [handler EXCEPT !.pc = "receive"]
    /\ UNCHANGED <<result, prev, chunks, hist>>

\* a created task is scheduled: a cancelled one ends without running
PipelineStarts ==
    \E i \in DOMAIN tasks :
        /\ tasks[i].pc = "created"
        /\ IF tasks[i].cancelling
           THEN Commit(SetPc(World(now), i, "done"))
           ELSE Commit(SetPc(PipelineBegin(World(now)), i, "stt"))
        /\ UNCHANGED <<now, result, prev, chunks, hist, handler>>

\* the task wakes at its await with the cancellation
PipelineCancelled ==
    \E i \in DOMAIN tasks :
        /\ tasks[i].pc \in {"stt", "llm", "tts", "stream"}
        /\ tasks[i].cancelling
        /\ Commit(SetPc(OnCancelled(World(now)), i, "done"))
        /\ UNCHANGED <<now, result, prev, chunks, hist, handler>>

\* the Whisper call of a task ends
STTEnds(outcome) ==
    \E i \in DOMAIN tasks :
        /\ tasks[i].pc = "stt"
        /\ ~tasks[i].cancelling
        /\ Commit(SetPc(AfterSTT(World(now), whisper_call(outcome)), i,
                        IF EmptyTranscript(whisper_call(outcome))
                        THEN "done" ELSE "llm"))
        /\ UNCHANGED <<now, result, prev, chunks, hist, handler>>

STTReturns == \E transcript \in Transcripts : STTEnds(Returns(transcript))

\* the Whisper client raises
STTFails == STTEnds(Raises)

\* the GPT call of a task ends
LLMEnds(outcome) ==
    \E i \in DOMAIN tasks :
        /\ tasks[i].pc = "llm"
        /\ ~tasks[i].cancelling
        /\ Commit(SetPc(AfterLLM(World(now), gpt_call(outcome)), i, "tts"))
        /\ UNCHANGED <<now, result, prev, chunks, hist, handler>>

LLMReturns == \E response \in Responses : LLMEnds(Returns(response))

\* the GPT client raises
LLMFails == LLMEnds(Raises)

\* the TTS call of a task ends with audio of some length, b"" if it raised;
\* with audio and the state still SPEAKING the stream begins: tts_start, the
\* first audio_chunk, the first await asyncio.sleep(0.02)
TTSEnds(outcome) ==
    \E i \in DOMAIN tasks :
        /\ tasks[i].pc = "tts"
        /\ ~tasks[i].cancelling
        /\ LET w == World(now)
               total_chunks == tts_call(outcome)
           IN  IF total_chunks > 0 /\ w.s.state = SPEAKING
               THEN LET w1 == _send_event(w, "tts_start",
                                          [total_chunks |-> total_chunks])
                        w2 == SendAudioChunk(w1, 1, total_chunks)
                    IN  Commit([w2 EXCEPT !.tk[i].pc = "stream",
                                          !.tk[i].total_chunks = total_chunks,
                                          !.tk[i].sent = 1])
               ELSE Commit(SetPc(AfterPlayback(w, FALSE), i, "done"))
        /\ UNCHANGED <<now, result, prev, chunks, hist, handler>>

\* the TTS call returns total_chunks chunks of audio, possibly none
TTSReturns ==
    \E total_chunks \in 0..MaxAudioChunks : TTSEnds(Returns(total_chunks))

\* the TTS client raises
TTSFails == TTSEnds(Raises)

\* a stream loop that does not look at the state
StreamContinues_Unchecked(w, task) == task.sent < task.total_chunks

\* the stream loop goes on: there is a chunk left and the state is SPEAKING
StreamContinues(w, task) ==
    task.sent < task.total_chunks /\ w.s.state = SPEAKING

\* the stream wakes from its sleep: the next chunk if there is one and the
\* state is still SPEAKING, else the end of the loop and of the pipeline
StreamResumes ==
    \E i \in DOMAIN tasks :
        /\ tasks[i].pc = "stream"
        /\ ~tasks[i].cancelling
        /\ LET w == World(now)
               task == tasks[i]
           IN  IF StreamContinues(w, task)
               THEN Commit([SendAudioChunk(w, task.sent + 1, task.total_chunks)
                              EXCEPT !.tk[i].sent = task.sent + 1])
               ELSE Commit(SetPc(AfterPlayback(w, TRUE), i, "done"))
        /\ UNCHANGED <<now, result, prev, chunks, hist, handler>>

\* positions of the events of a type
EventsOf(type) == { j \in DOMAIN events : events[j].type = type }

\* Observations over the events sent
NumEvents(type) ==
    Cardinality({ i \in DOMAIN events : events[i].type = type })

Max(S) == CHOOSE x \in S : \A y \in S : x >= y

\* positions of the state_changed events into SPEAKING
SpeakingEntries ==
    { i \in DOMAIN events : /\ events[i].type = "state_changed"
                            /\ events[i].new_state = SPEAKING }

\* when the session last entered SPEAKING, 0 if it never did
SpeakingSince ==
    IF SpeakingEntries = {} THEN 0 ELSE events[Max(SpeakingEntries)].timestamp

\* The barge-in run: the user's utterance of the happy path, silence while
\* the pipeline works, and from the moment the session enters SPEAKING chunks
\* of amplitude 0.05 without a break, all at the configured cadence.  The
\* executor calls take any time; a task just created and a stream in its
\* 20 ms sleep run before the next chunk arrives, a chunk period later.
BargeInAmplitude == 500
\* silent chunks the pipeline may take beyond the utterance's own silence
MaxLatencyChunks == 1
\* the loud chunks go on for this long after SPEAKING was entered, ms
BargeInHorizon == 3000

BargeInChunk ==
    LET gap == HANDS_FREE_CONFIG.audio_chunk_duration_ms
        amplitude == IF SpeakingSince # 0 THEN BargeInAmplitude
                     ELSE IF chunks < HappySpeechChunks
                          THEN HappyPath.speech_amplitude
                          ELSE HappyPath.silence_amplitude
    IN  /\ IF SpeakingSince # 0
           THEN now + gap <= SpeakingSince + BargeInHorizon
           ELSE chunks < HappySpeechChunks + HappySilenceChunks + MaxLatencyChunks
        /\ \A i \in DOMAIN tasks : tasks[i].pc \notin {"created", "stream"}
        /\ ReceiveAudioChunk(gap, amplitude)

NextBargeIn ==
    \/ CreateSession
    \/ BargeInChunk
    \/ InterruptionResumes
    \/ PipelineStarts
    \/ STTReturns
    \/ LLMReturns
    \/ TTSReturns
    \/ StreamResumes

SpecBargeIn == InitFresh /\ [][NextBargeIn]_vars

\* The session under a client that talks, pauses, resumes and hangs up.  The
\* client first says the utterance of the happy path and is silent while the
\* pipeline works on it; from the moment the session first enters SPEAKING it
\* sends, at a coarser cadence, loud or quiet chunks as it likes.  It pauses, resumes or hangs up only once its
\* utterance has gone to the pipeline.  A task just created, and a
\* cancellation just requested, run before the next websocket message is
\* taken.

\* pause_session / resume_session messages the client sends, at most
MaxPauses == 1
MaxResumes == 1
\* the client goes on for this long after SPEAKING was entered, ms
SessionHorizon == 1900
\* what it sends then: a loud chunk (0.3) half a second after the previous
\* one, or a quiet chunk (0.001) 300 ms after it
FreeChunks == { [gap |-> 500, amplitude |-> 3000],
                [gap |-> 300, amplitude |-> 10] }

TasksSettled ==
    \A i \in DOMAIN tasks :
        /\ tasks[i].pc # "created"
        /\ ~(tasks[i].cancelling /\ ~TaskDone(tasks[i]))

ScriptedChunk ==
    LET gap == HANDS_FREE_CONFIG.audio_chunk_duration_ms
        amplitude == IF chunks < HappySpeechChunks
                     THEN HappyPath.speech_amplitude
                     ELSE HappyPath.silence_amplitude
    IN  /\ tasks = <<>>
        /\ chunks < HappySpeechChunks + HappySilenceChunks
        /\ ReceiveAudioChunk(gap, amplitude)

FreeChunk ==
    \E c \in FreeChunks :
        /\ SpeakingSince # 0
        /\ TasksSettled
        /\ now + c.gap <= SpeakingSince + SessionHorizon
        /\ ReceiveAudioChunk(c.gap, c.amplitude)

\* a pause_session message
PauseSession ==
    /\ receive_json(handler)
    /\ tasks # <<>>
    /\ TasksSettled
    /\ NumEvents("session_paused") < MaxPauses
    /\ Commit(pause_session(World(now)))
    /\ UNCHANGED <<now, result, prev, chunks, hist, handler>>

\* a resume_session message
ResumeSession ==
    /\ receive_json(handler)
    /\ tasks # <<>>
    /\ TasksSettled
    /\ NumEvents("session_resumed") < MaxResumes
    /\ Commit(resume_session(World(now)))
    /\ UNCHANGED <<now, result, prev, chunks, hist, handler>>

\* a stop_session message or a disconnect: the endpoint's finally clause
\* closes the session
StopSession ==
    /\ receive_json(handler)
    /\ tasks # <<>>
    /\ TasksSettled
    /\ Commit(close(World(now)))
    /\ handler' = [handler EXCEPT !.pc = "closed"]
    /\ UNCHANGED <<now, result, prev, chunks, hist>>

NextSession ==
    \/ CreateSession
    \/ ScriptedChunk
    \/ FreeChunk
    \/ PauseSession
    \/ ResumeSession
    \/ StopSession
    \/ InterruptionResumes
    \/ PipelineStarts
    \/ PipelineCancelled
    \/ STTReturns
    \/ LLMReturns
    \/ TTSReturns
    \/ StreamResumes

SpecSession == InitFresh /\ [][NextSession]_vars

\* One turn with every outcome of its pipeline: the client of the barge-in
\* run, which may also hang up once its utterance has gone to the pipeline;
\* each call of the OpenAI client returns or raises.
NextPipeline ==
    \/ CreateSession
    \/ BargeInChunk
    \/ StopSession
    \/ InterruptionResumes
    \/ PipelineStarts
    \/ PipelineCancelled
    \/ STTReturns
    \/ STTFails
    \/ LLMReturns
    \/ LLMFails
    \/ TTSReturns
    \/ TTSFails
    \/ StreamResumes

SpecPipeline == InitFresh /\ [][NextPipeline]_vars

\* the event loop runs every task that can run, the sleeps end and every
\* executor call ends
PipelineFairness ==
    /\ WF_vars(InterruptionResumes)
    /\ WF_vars(PipelineStarts)
    /\ WF_vars(PipelineCancelled)
    /\ WF_vars(STTReturns \/ STTFails)
    /\ WF_vars(LLMReturns \/ LLMFails)
    /\ WF_vars(TTSReturns \/ TTSFails)
    /\ WF_vars(StreamResumes)

LivePipeline == SpecPipeline /\ PipelineFairness

\* Two utterances.  The client says the utterance of the happy path; at some
\* point of the pipeline's work on it the client pauses and at once resumes,
\* which puts the session in LISTENING, and speaks again, louder, while the
\* pipeline task of the first utterance runs on at its own pace.  The client
\* may hang up at any time after its first utterance.

\* the second utterance, sent in larger pieces: loud chunks (0.3) 400 ms
\* apart, then quiet chunks (0.001) 900 ms apart
RestartLoud == [gap |-> 400, amplitude |-> 3000]
RestartQuiet == [gap |-> 900, amplitude |-> 10]
\* how many of each
RestartLoudChunks == 3
RestartQuietChunks == 6

\* when the client resumed
ResumedAt == events[Max(EventsOf("session_resumed"))].timestamp

RestartChunk ==
    LET loud_ms == RestartLoudChunks * RestartLoud.gap
        c == IF now - ResumedAt < loud_ms THEN RestartLoud ELSE RestartQuiet
    IN  /\ EventsOf("session_resumed") # {}
        /\ TasksSettled
        /\ now + c.gap - ResumedAt
               <= loud_ms + RestartQuietChunks * RestartQuiet.gap
        /\ ReceiveAudioChunk(c.gap, c.amplitude)

\* the client pauses between its two utterances
RestartPause ==
    /\ EventsOf("session_paused") = {}
    /\ PauseSession

\* and resumes at once
RestartResume ==
    /\ events # <<>>
    /\ events[Len(events)].type = "session_paused"
    /\ ResumeSession

NextRestart ==
    \/ CreateSession
    \/ ScriptedChunk
    \/ RestartChunk
    \/ RestartPause
    \/ RestartResume
    \/ StopSession
    \/ InterruptionResumes
    \/ PipelineStarts
    \/ PipelineCancelled
    \/ STTReturns
    \/ LLMReturns
    \/ TTSReturns
    \/ StreamResumes

SpecRestart == InitFresh /\ [][NextRestart]_vars

\* Talking over the assistant and on: the utterance of the happy path, and
\* from the moment the session enters SPEAKING a loud voice (0.3), which the
\* echo window does not mask, for as long as the loud chunks of the barge-in
\* run; then the user falls silent for long enough to end the speech.
TalkOverAmplitude == 3000
TalkOverQuietChunks == 13

TalkOverLeadIn ==
    /\ SpeakingSince = 0
    /\ BargeInChunk

TalkOverChunk ==
    LET gap == HANDS_FREE_CONFIG.audio_chunk_duration_ms
        amplitude == IF now + gap <= SpeakingSince + BargeInHorizon
                     THEN TalkOverAmplitude
                     ELSE HappyPath.silence_amplitude
    IN  /\ SpeakingSince # 0
        /\ now + gap <= SpeakingSince + BargeInHorizon
                            + TalkOverQuietChunks * gap
        /\ \A i \in DOMAIN tasks : tasks[i].pc \notin {"created", "stream"}
        /\ ReceiveAudioChunk(gap, amplitude)

\* a step of the pipeline of the first utterance; the Whisper call for a
\* second one outlasts the run
TalkOverPipeline ==
    /\ Len(tasks) = 1
    /\ (STTReturns \/ LLMReturns \/ TTSReturns \/ StreamResumes)

NextTalkOver ==
    \/ CreateSession
    \/ TalkOverLeadIn
    \/ TalkOverChunk
    \/ InterruptionResumes
    \/ PipelineStarts
    \/ TalkOverPipeline

SpecTalkOver == InitFresh /\ [][NextTalkOver]_vars

\* Raw audio: a few messages whose payloads are any short byte strings,
\* silence, small and full-scale samples of either sign among them, at the
\* configured cadence.
Bytes == {0, 1, 127, 255}
MaxBufferBytes == 4
MaxByteChunks == 2
ByteBuffers == UNION { [1..n -> Bytes] : n \in 0..MaxBufferBytes }

ReceiveBytes ==
    \E audio_data \in ByteBuffers :
        /\ chunks < MaxByteChunks
        /\ ReceiveAudio(HANDS_FREE_CONFIG.audio_chunk_duration_ms, audio_data,
                        AmplitudeUnits(_calculate_amplitude(audio_data)))

NextAmplitude ==
    \/ CreateSession
    \/ ReceiveBytes

SpecAmplitude == InitFresh /\ [][NextAmplitude]_vars

\* A conversation of several turns.  The segmentation of the audio is left
\* out: each turn begins with the call of _process_speech_segment that
\* _handle_vad_events makes for a segment worth processing, and a new
\* segment may come when the task of the turn before has ended or waits for
\* Whisper or GPT, which cancels it.  In each turn the user says something
\* else, or nothing Whisper can make out, and GPT gives another reply; the
\* audio of a reply is one chunk long.
MaxTurns == 7
TurnAudioChunks == 1
TurnDurationMs == 1000
TurnText == <<"t1", "t2", "t3", "t4", "t5", "t6", "t7">>
TurnReply == <<"r1", "r2", "r3", "r4", "r5", "r6", "r7">>

SegmentArrives ==
    /\ receive_json(handler)
    /\ Len(tasks) < MaxTurns
    /\ TasksSettled
    /\ \A i \in DOMAIN tasks : tasks[i].pc \in {"stt", "llm", "done"}
    /\ Commit(_process_speech_segment(World(now), <<now>>, TurnDurationMs))
    /\ UNCHANGED <<now, result, prev, chunks, hist, handler>>

\* task.cancel() wakes the task of the turn before, create_task readies the
\* new one after it: the cancelled task runs first
TurnStarts ==
    /\ \A i \in DOMAIN tasks : tasks[i].cancelling => TaskDone(tasks[i])
    /\ PipelineStarts

TurnSTT ==
    /\ tasks # <<>>
    /\ \E transcript \in {"", TurnText[Len(tasks)]} :
           STTEnds(Returns(transcript))

TurnLLM ==
    /\ tasks # <<>>
    /\ LLMEnds(Returns(TurnReply[Len(tasks)]))

TurnTTS == TTSEnds(Returns(TurnAudioChunks))

NextHistory ==
    \/ CreateSession
    \/ SegmentArrives
    \/ TurnStarts
    \/ PipelineCancelled
    \/ TurnSTT
    \/ TurnLLM
    \/ TurnTTS
    \/ StreamResumes

SpecHistory == InitFresh /\ [][NextHistory]_vars

\* One utterance into a fresh session, at the configured cadence: quiet
\* chunks for as long as the client likes, then loud chunks, then quiet
\* chunks until the hang time has surely passed.  The pipeline task starts
\* before the next message and then waits for the Whisper call, which does
\* not return while the client goes on to speak a second time.

\* quiet chunks before the utterance, at most: enough to fill the ring buffer
MaxQuietLeadIn == 52
\* loud chunks of the utterance, at most
MaxUtteranceChunks == 12
\* quiet chunks after the utterance, at most: the smoothing window keeps the
\* voice for three chunks, the hang time for nine more
MaxTrailingQuiet == 13
\* a second utterance is taken in sessions whose lead-in was at most this long
MaxTalkOverLeadIn == 0

\* positions of the loud chunks in the ring buffer
LoudInBuffer ==
    { i \in DOMAIN session.audio_buffer.buffer :
        session.audio_buffer.buffer[i].amplitude = HappyPath.speech_amplitude }

\* quiet chunks taken since the last loud one
TrailingQuiet == Len(session.audio_buffer.buffer) - Max(LoudInBuffer)

\* loud chunks at the end of the buffer
CurrentRun ==
    Len(session.audio_buffer.buffer)
        - Max((DOMAIN session.audio_buffer.buffer \ LoudInBuffer) \cup {0})

\* runs of loud chunks in the buffer
LoudRuns ==
    Cardinality({ i \in LoudInBuffer : i = 1 \/ i - 1 \notin LoudInBuffer })

\* quiet chunks the session got before its first loud one
LeadInLength == session.audio_buffer.buffer[Min(LoudInBuffer)].chunk_id

\* the client speaks a second time while the first utterance is in the
\* pipeline
TalksOver ==
    /\ tasks # <<>>
    /\ LoudRuns = 1
    /\ LeadInLength <= MaxTalkOverLeadIn

QuietChunk ==
    /\ TasksSettled
    /\ IF LoudInBuffer = {} THEN chunks < MaxQuietLeadIn
       ELSE TrailingQuiet < MaxTrailingQuiet
    /\ ReceiveAudioChunk(HANDS_FREE_CONFIG.audio_chunk_duration_ms,
                         HappyPath.silence_amplitude)

LoudChunk ==
    /\ TasksSettled
    /\ IF LoudInBuffer = {} THEN TRUE
       ELSE IF TrailingQuiet = 0 THEN CurrentRun < MaxUtteranceChunks
       ELSE TalksOver
    /\ ReceiveAudioChunk(HANDS_FREE_CONFIG.audio_chunk_duration_ms,
                         HappyPath.speech_amplitude)

NextUtterance ==
    \/ CreateSession
    \/ QuietChunk
    \/ LoudChunk
    \/ PipelineStarts

SpecUtterance == InitFresh /\ [][NextUtterance]_vars

-----------------------------------------------------------------------------
(* The ElevenLabs client: connect(), the _message_handler task it starts    *)
(* and the reconnection that task runs when the socket closes under it      *)

\* connections the server may close in one run
MaxCloses == 4
\* how long a connection may live before the server closes it, ms
Uptimes == {1000, 5000, 30000}

\* the variables of the web session and its VAD
webvars == <<vad, result, prev, chunks, hist, session, tasks, handler, events>>

\* main.py: await self.ws_client.connect(), once, its result not looked at
Connect ==
    \E connected \in BOOLEAN :
        /\ client.main = "connect"
        /\ client' = [connect(client, connected) EXCEPT !.main = "running"]
        /\ UNCHANGED <<now, webvars, player>>

\* the socket closes under `async for message in self.ws`: ConnectionClosed
\* is raised into _message_handler, which runs _handle_disconnect up to its
\* sleep
ConnectionCloses ==
    \E i \in DOMAIN client.handlers, uptime \in Uptimes :
        /\ client.handlers[i].pc = "receive"
        /\ i <= MaxCloses
        /\ now' = now + uptime
        /\ client' = _handle_disconnect(
                         [client EXCEPT !.is_connected = FALSE], i)
        /\ UNCHANGED <<webvars, player>>

\* asyncio.sleep(delay) is over: _handle_disconnect calls connect() and
\* returns, and the _message_handler task that ran it ends
ReconnectAttempt ==
    \E i \in DOMAIN client.handlers, connected \in BOOLEAN :
        /\ client.handlers[i].pc = "sleep"
        /\ now' = now + client.handlers[i].delay * 1000
        /\ client' =
             [connect(client, connected) EXCEPT
                 !.handlers[i].pc = "done",
                 !.attempts = Append(@, [n         |-> client.reconnect_attempts,
                                         delay     |-> client.handlers[i].delay,
                                         at        |-> now',
                                         connected |-> connected])]
        /\ UNCHANGED <<webvars, player>>

NextReconnect ==
    \/ Connect
    \/ ConnectionCloses
    \/ ReconnectAttempt

SpecReconnect == InitFresh /\ [][NextReconnect]_vars

-----------------------------------------------------------------------------
(* Playback of the audio handler: play_audio runs in the event loop's       *)
(* thread, one call at a time; each _playback_worker runs in a thread of    *)
(* its own.  A step is one read or write of a field the threads share, so   *)
(* the threads interleave between any two of them.                          *)

\* audio chunks the agent sends in one run, named 1..MaxPlayChunks
MaxPlayChunks == 3

SetWorker(p, i, pc) == [p EXCEPT !.workers[i].pc = pc]

\* a step of either thread leaves the player as p
PlayerStep(p) == player' = p /\ UNCHANGED <<now, webvars, client>>

\* play_audio: self.playback_queue.put(audio_base64)
PlayAudio ==
    /\ player.caller = "idle"
    /\ player.played < MaxPlayChunks
    /\ PlayerStep([player EXCEPT
           !.played = @ + 1,
           !.playback_queue = Append(@, player.played + 1),
           !.caller = "check"])

\* play_audio: if not self.is_playing
PlayAudioChecks ==
    /\ player.caller = "check"
    /\ PlayerStep([player EXCEPT
           !.caller = IF player.is_playing THEN "idle" ELSE "start"])

\* _start_playback: if self.is_playing: return
StartPlaybackChecks ==
    /\ player.caller = "start"
    /\ PlayerStep([player EXCEPT
           !.caller = IF player.is_playing THEN "idle" ELSE "open"])

\* _start_playback: self.output_stream = self.pyaudio.open(...)
StartPlaybackOpens ==
    /\ player.caller = "open"
    /\ PlayerStep([player EXCEPT
           !.opened = @ + 1,
           !.output_stream = player.opened + 1,
           !.caller = "flag"])

\* _start_playback: self.is_playing = True
StartPlaybackFlags ==
    /\ player.caller = "flag"
    /\ PlayerStep([player EXCEPT !.is_playing = TRUE,
                                       !.caller = "thread"])

\* _start_playback: self.playback_thread.start()
StartPlaybackStartsThread ==
    /\ player.caller = "thread"
    /\ PlayerStep([player EXCEPT
           !.workers = Append(@, [pc |-> "loop", item |-> 0]),
           !.caller = "idle"])

\* _playback_worker: while self.is_playing
WorkerLoops ==
    \E i \in DOMAIN player.workers :
        /\ player.workers[i].pc = "loop"
        /\ PlayerStep(SetWorker(player, i,
               IF player.is_playing THEN "get" ELSE "stop"))

\* _playback_worker: self.playback_queue.get(timeout=1.0) hands over the
\* oldest chunk, or raises queue.Empty after a second without one
WorkerGets ==
    \E i \in DOMAIN player.workers :
        /\ player.workers[i].pc = "get"
        /\ PlayerStep(
               IF player.playback_queue # <<>>
               THEN [player EXCEPT
                        !.workers[i] = [pc |-> "write",
                                        item |-> Head(player.playback_queue)],
                        !.playback_queue = Tail(@)]
               ELSE SetWorker(player, i, "empty"))

\* _playback_worker, except queue.Empty: if self.playback_queue.empty(): break
WorkerFindsEmpty ==
    \E i \in DOMAIN player.workers :
        /\ player.workers[i].pc = "empty"
        /\ PlayerStep(SetWorker(player, i,
               IF player.playback_queue = <<>> THEN "stop" ELSE "loop"))

\* _playback_worker: if self.output_stream: self.output_stream.write(...).
\* Without a stream the chunk is skipped; a stream that was closed raises
\* and the except clause breaks out of the loop
WorkerWrites ==
    \E i \in DOMAIN player.workers :
        /\ player.workers[i].pc = "write"
        /\ PlayerStep(
               LET item == player.workers[i].item
                   p == [player EXCEPT !.workers[i].item = 0]
               IN  IF player.output_stream = 0
                   THEN [SetWorker(p, i, "loop") EXCEPT
                            !.dropped = @ \cup {item}]
                   ELSE IF player.output_stream \in player.closed
                   THEN [SetWorker(p, i, "stop") EXCEPT
                            !.dropped = @ \cup {item}]
                   ELSE [SetWorker(p, i, "loop") EXCEPT
                            !.written = Append(@, item)])

\* _stop_playback, from the worker's finally: self.is_playing = False
WorkerStops ==
    \E i \in DOMAIN player.workers :
        /\ player.workers[i].pc = "stop"
        /\ PlayerStep([SetWorker(player, i, "close") EXCEPT
               !.is_playing = FALSE])

\* _stop_playback: if self.output_stream: stop_stream(); close()
WorkerCloses ==
    \E i \in DOMAIN player.workers :
        /\ player.workers[i].pc = "close"
        /\ PlayerStep(
               IF player.output_stream = 0
               THEN SetWorker(player, i, "done")
               ELSE [SetWorker(player, i, "clear") EXCEPT
                        !.closed = @ \cup {player.output_stream}])

\* _stop_playback: self.output_stream = None; the thread ends
WorkerClears ==
    \E i \in DOMAIN player.workers :
        /\ player.workers[i].pc = "clear"
        /\ PlayerStep([SetWorker(player, i, "done") EXCEPT
               !.output_stream = 0])

NextPlayback ==
    \/ PlayAudio
    \/ PlayAudioChecks
    \/ StartPlaybackChecks
    \/ StartPlaybackOpens
    \/ StartPlaybackFlags
    \/ StartPlaybackStartsThread
    \/ WorkerLoops
    \/ WorkerGets
    \/ WorkerFindsEmpty
    \/ WorkerWrites
    \/ WorkerStops
    \/ WorkerCloses
    \/ WorkerClears

SpecPlayback == InitFresh /\ [][NextPlayback]_vars

-----------------------------------------------------------------------------
(* Properties of process_chunk.  `result` and `prev` describe the latest    *)
(* chunk: prev is the VAD the call started from, result what it returned.   *)

cfg == HANDS_FREE_CONFIG

\* the latest chunk's effective amplitude was above interrupt_threshold
LatestLoud == FracGTInt(result.effective_amplitude, cfg.interrupt_threshold)

\* C1: interrupt_detected is reported only on a chunk where all five gates
\* hold: (a) the state passed in is SPEAKING, (b) detection is enabled,
\* (c) interrupt_min_speaking_time_ms have passed since speaking_start_time,
\* (d) a candidate is running, has lasted interrupt_confirmation_ms and every
\* chunk since it started was above interrupt_threshold, (e)
\* interrupt_cooldown_ms have passed since last_interrupt_time.
C1_InterruptRequiresAllGates ==
    result.interrupt_detected =>
        /\ result.current_state = SPEAKING
        /\ prev.interrupt_detection_enabled
        /\ result.timestamp - prev.speaking_start_time
              >= cfg.interrupt_min_speaking_time_ms
        /\ prev.interrupt_candidate_start # 0
        /\ result.timestamp - prev.interrupt_candidate_start
              >= cfg.interrupt_confirmation_ms
        /\ hist.loudRunStart # 0
        /\ hist.loudRunStart <= prev.interrupt_candidate_start
        /\ result.timestamp - prev.last_interrupt_time
              >= cfg.interrupt_cooldown_ms

\* an interruption was confirmed
C1_Witness ==
    /\ result.interrupt_detected
    /\ prev.interrupt_candidate_start > prev.speaking_start_time

\* The barge-in run, seen through the events sent.
InterruptedEvents == { i \in DOMAIN events : events[i].type = "interrupted" }

\* the session entered SPEAKING and its pipeline task is still running, or
\* an interruption has ended it
TurnHeld ==
    /\ SpeakingSince # 0
    /\ \/ \E i \in DOMAIN tasks : ~TaskDone(tasks[i])
       \/ InterruptedEvents # {}

\* every state_changed event after position i leads to LISTENING
ThenListening(i) ==
    \A j \in DOMAIN events :
        (j > i /\ events[j].type = "state_changed")
            => events[j].new_state = LISTENING

\* C2 as stated: in the barge-in run, once amplitude 0.05 has been fed for
\* interrupt_min_speaking_time_ms + interrupt_confirmation_ms and one chunk
\* more since SPEAKING was entered, exactly one interrupted event has been
\* sent, the session is LISTENING and echo_suppression_until is 0.
C2_AsStated ==
    ( /\ TurnHeld
      /\ handler.pc = "receive"
      /\ now >= SpeakingSince + cfg.interrupt_min_speaking_time_ms
                  + cfg.interrupt_confirmation_ms + cfg.audio_chunk_duration_ms )
    => /\ Cardinality(InterruptedEvents) = 1
       /\ session.state = LISTENING
       /\ vad.echo_suppression_until = 0

\* C2, amended: in the barge-in run no interrupted event is sent before
\* echo_suppression_duration_ms + interrupt_confirmation_ms have passed since
\* SPEAKING was entered (inside the echo window 0.05 is attenuated to 0.015,
\* below interrupt_threshold); if the turn lasts that long, exactly one
\* interrupted event is sent, on the chunk at that instant; the state changes
\* that follow it all lead to LISTENING, and once _handle_interruption has
\* returned the session is LISTENING with echo_suppression_until = 0.
C2_BargeIn ==
    LET due == SpeakingSince + cfg.echo_suppression_duration_ms
                 + cfg.interrupt_confirmation_ms
    IN  /\ Cardinality(InterruptedEvents) <= 1
        /\ (SpeakingSince = 0 \/ now < due) => InterruptedEvents = {}
        /\ (TurnHeld /\ now >= due) => Cardinality(InterruptedEvents) = 1
        /\ \A i \in InterruptedEvents :
              /\ events[i].timestamp = due
              /\ events[i].interruptions_count = 1
              /\ events[i - 1].type = "state_changed"
              /\ events[i - 1].old_state = SPEAKING
              /\ events[i - 1].new_state = INTERRUPTED
              /\ ThenListening(i)
              /\ handler.pc = "interrupt_sleep"
                    => session.state \in {INTERRUPTED, LISTENING}
              /\ handler.pc = "receive"
                    => /\ session.state = LISTENING
                       /\ vad.echo_suppression_until = 0
                       /\ ~vad.interrupt_detection_enabled

\* the interruption has been handled to the end
C2_Witness ==
    /\ Cardinality(InterruptedEvents) = 1
    /\ handler.pc = "receive"
    /\ session.state = LISTENING
    /\ session.interruptions_count = 1
    /\ vad.echo_suppression_until = 0

\* C3: speech_started is reported only at the end of an unbroken run of
\* voiced chunks spanning at least vad_attack_time_ms, and the start time it
\* reports is the timestamp of the first chunk of that run.
C3_AttackTimeGating ==
    result.speech_started =>
        /\ hist.voiceRunStart # 0
        /\ result.timestamp - hist.voiceRunStart >= cfg.vad_attack_time_ms
        /\ result.speech_start_time = hist.voiceRunStart
        /\ vad.speech_start_time = hist.voiceRunStart

\* a speech start confirmed on a later chunk than the one that began the run
C3_Witness ==
    /\ result.speech_started
    /\ result.speech_start_time < result.timestamp

\* C4: speech_ended is reported only on an unvoiced chunk at least
\* vad_hang_time_ms after the latest voiced chunk, while speech is active;
\* last_speech_time is the latest voiced chunk, so every voiced chunk
\* restarts the measurement.
C4_HangTimeGating ==
    /\ vad.last_speech_time = hist.lastVoiceAt
    /\ result.speech_ended =>
          /\ ~result.has_voice
          /\ prev.is_speech_active
          /\ result.timestamp - hist.lastVoiceAt >= cfg.vad_hang_time_ms

\* a speech end confirmed
C4_Witness ==
    /\ result.speech_ended
    /\ hist.lastVoiceAt > vad.speech_start_time

\* C5: speech_started and speech_ended alternate, starting with
\* speech_started; is_speech_active is true exactly after a speech_started
\* not yet followed by a speech_ended; an active VAD with a candidate set has
\* that candidate as its confirmed start, lasting at least the attack time.
C5_StartEndAlternate ==
    /\ hist.numEnded <= hist.numStarted
    /\ hist.numStarted <= hist.numEnded + 1
    /\ ~(result.speech_started /\ result.speech_ended)
    /\ vad.is_speech_active <=> hist.numStarted = hist.numEnded + 1
    /\ vad.is_speech_active <=> hist.lastSpeechEvent = "started"
    /\ (vad.is_speech_active /\ vad.potential_speech_start # 0) =>
          /\ vad.potential_speech_start = vad.speech_start_time
          /\ vad.last_speech_time - vad.potential_speech_start
                >= cfg.vad_attack_time_ms

\* a whole segment: started, then ended
C5_Witness ==
    /\ hist.numStarted = 1
    /\ hist.numEnded = 1
    /\ ~vad.is_speech_active

\* the happy-path run is over
HappyDone == chunks = HappySpeechChunks + HappySilenceChunks

C7_DurationAndShouldProcess ==
    result.speech_ended =>
        /\ result.speech_duration_ms = hist.lastVoiceAt - vad.speech_start_time
        /\ result.speech_duration_ms = vad.last_speech_time - vad.speech_start_time
        /\ result.should_process
              <=> result.speech_duration_ms >= cfg.min_speech_duration_ms

\* a segment of exactly the minimum duration, processed
C7_Witness ==
    /\ result.speech_ended
    /\ result.speech_duration_ms = cfg.min_speech_duration_ms
    /\ result.should_process

\* a segment below the minimum duration, not processed
C7_ShortSegmentReached ==
    /\ result.speech_ended
    /\ result.speech_duration_ms < cfg.min_speech_duration_ms
    /\ ~result.should_process

\* C8: two interrupt_detected results are never less than
\* interrupt_cooldown_ms apart.
C8_CooldownBetweenInterrupts ==
    hist.prevInterruptAt # 0 =>
        hist.lastInterruptAt - hist.prevInterruptAt >= cfg.interrupt_cooldown_ms

\* two interruptions confirmed
C8_Witness == hist.numInterrupts >= 2

\* a loud chunk in SPEAKING, detection enabled, inside the cooldown of the
\* previous interruption: it neither confirms nor starts a candidate
C8_BurstInCooldownReached ==
    /\ hist.numInterrupts = 1
    /\ ~result.interrupt_detected
    /\ LatestLoud
    /\ result.current_state = SPEAKING
    /\ prev.interrupt_detection_enabled
    /\ result.timestamp - hist.lastInterruptAt < cfg.interrupt_cooldown_ms
    /\ result.timestamp - hist.lastInterruptAt > 0

\* C9: a chunk that is not above interrupt_threshold, or is taken outside
\* SPEAKING, or with detection disabled, leaves interrupt_candidate_start at
\* 0; and an interruption is confirmed only by an unbroken run of qualifying
\* chunks at least interrupt_confirmation_ms long.
C9_CandidateResetOnMiss ==
    /\ (/\ chunks > 0
        /\ \/ ~LatestLoud
           \/ result.current_state # SPEAKING
           \/ ~prev.interrupt_detection_enabled)
          => vad.interrupt_candidate_start = 0
    /\ result.interrupt_detected =>
          /\ hist.qualRunStart # 0
          /\ result.timestamp - hist.qualRunStart
                >= cfg.interrupt_confirmation_ms

\* a running candidate cancelled by a chunk that is not above the threshold
C9_Witness ==
    /\ prev.interrupt_candidate_start # 0
    /\ ~LatestLoud
    /\ result.current_state = SPEAKING
    /\ prev.interrupt_detection_enabled
    /\ vad.interrupt_candidate_start = 0

\* smooth * echo_factor = effective, as fractions
AttenuatedByEchoFactor(smooth, effective) ==
    smooth.num * cfg.echo_suppression_factor.num * effective.den
        = effective.num * smooth.den * cfg.echo_suppression_factor.den

\* C10: before echo_suppression_until the effective amplitude is the smoothed
\* amplitude times echo_factor, at or after it the smoothed amplitude itself;
\* speech detection and interruption detection both compare the effective
\* amplitude.
C10_EchoSuppressionWindow ==
    chunks > 0 =>
        /\ result.smooth_amplitude.num = SumSeq(vad.amplitude_window)
        /\ result.smooth_amplitude.den = Len(vad.amplitude_window)
        /\ result.timestamp < prev.echo_suppression_until =>
              /\ AttenuatedByEchoFactor(result.smooth_amplitude,
                                        result.effective_amplitude)
              /\ result.is_echo_suppressed
        /\ result.timestamp >= prev.echo_suppression_until =>
              /\ result.effective_amplitude = result.smooth_amplitude
              /\ ~result.is_echo_suppressed
        /\ result.has_voice <=>
              FracGT(result.effective_amplitude, result.adaptive_threshold)
        /\ result.interrupt_detected => LatestLoud
        /\ vad.interrupt_candidate_start = result.timestamp => LatestLoud

\* a loud chunk arriving exactly when the window ends: not attenuated, and
\* taken as the start of an interruption candidate
C10_Witness ==
    /\ chunks > 0
    /\ prev.echo_suppression_until # 0
    /\ result.timestamp = prev.echo_suppression_until
    /\ result.smooth_amplitude.num > 0
    /\ vad.interrupt_candidate_start = result.timestamp

\* a loud chunk inside the window: attenuated below both thresholds
C10_AttenuatedReached ==
    /\ chunks > 0
    /\ result.timestamp < prev.echo_suppression_until
    /\ FracGTInt(result.smooth_amplitude, cfg.interrupt_threshold)
    /\ ~LatestLoud
    /\ ~result.has_voice

-----------------------------------------------------------------------------
(* Properties of the session *)

\* the latest interrupted event, and whether the session has not entered
\* SPEAKING since
LastInterrupted == Max(InterruptedEvents)

SinceInterruption ==
    /\ InterruptedEvents # {}
    /\ \A j \in SpeakingEntries : j < LastInterrupted

\* C11: while the session is SPEAKING echo_suppression_until is the time
\* SPEAKING was entered plus echo_suppression_duration_ms; once a confirmed
\* interruption has been handled echo_suppression_until is 0 until the next
\* entry to SPEAKING, and no chunk processed in between is attenuated.
C11_EchoArmedAndCleared ==
    /\ session.state = SPEAKING
          => vad.echo_suppression_until
               = SpeakingSince + cfg.echo_suppression_duration_ms
    /\ SinceInterruption
          => /\ handler.pc # "interrupt_sleep" => vad.echo_suppression_until = 0
             /\ result.timestamp > events[LastInterrupted].timestamp
                   => ~result.is_echo_suppressed

\* a chunk was processed after an interruption, at a time the window armed
\* for the interrupted turn would still have covered
C11_Witness ==
    /\ SinceInterruption
    /\ result.timestamp > events[LastInterrupted].timestamp
    /\ result.timestamp < SpeakingSince + cfg.echo_suppression_duration_ms
    /\ vad.echo_suppression_until = 0

C12_EnabledReached ==
    /\ vad.interrupt_detection_enabled
    /\ session.state = SPEAKING
    /\ ~session.is_active

\* a VAD result that reports an interruption and nothing else
SpuriousInterrupt == [NoResult EXCEPT !.interrupt_detected = TRUE]

\* C13: the VAD reports interrupt_detected only on a chunk it was handed
\* with the session SPEAKING; the session counts an interruption and sends an
\* interrupted event for each such report and for nothing else, each time
\* leaving SPEAKING; and an interrupt_detected result handled in any other
\* state would change nothing.
C13_InterruptOnlyWhenSpeaking ==
    /\ result.interrupt_detected => result.current_state = SPEAKING
    /\ session.interruptions_count = Cardinality(InterruptedEvents)
    /\ session.interruptions_count = hist.numInterrupts
    /\ \A i \in InterruptedEvents :
          /\ events[i - 1].type = "state_changed"
          /\ events[i - 1].old_state = SPEAKING
          /\ events[i - 1].new_state = INTERRUPTED
    /\ session.state # SPEAKING
          => _handle_vad_events(World(now), SpuriousInterrupt) = World(now)

\* an interruption was reported and handled
C13_Witness ==
    /\ result.interrupt_detected
    /\ session.interruptions_count = 1
    /\ session.state \in {INTERRUPTED, LISTENING}

\* the state_changed events sent after position i
StateChangesAfter(i) ==
    { j \in DOMAIN events : j > i /\ events[j].type = "state_changed" }

C14_HandlerReturned ==
    /\ SinceInterruption
    /\ handler.pc = "receive"
    /\ session.state = LISTENING

\* the events of the given types sent after the latest interrupted event
AfterInterruption(types) ==
    { j \in DOMAIN events : j > LastInterrupted /\ events[j].type \in types }

\* C15: once an interruption is confirmed the interrupted turn's task is
\* cancelled: until the next turn it sends no audio_chunk, tts_complete or
\* processing_complete event, the turn is not counted in total_exchanges, and
\* no error event is sent.
C15_AsStated ==
    SinceInterruption =>
        /\ AfterInterruption({"audio_chunk", "tts_complete",
                              "processing_complete", "error"}) = {}
        /\ session.total_exchanges = 0
        /\ handler.pc = "receive"
              => \A i \in DOMAIN tasks : TaskDone(tasks[i]) \/ tasks[i].cancelling

\* the interrupted turn was completed and counted all the same
C15_Witness ==
    /\ SinceInterruption
    /\ AfterInterruption({"processing_complete"}) # {}
    /\ AfterInterruption({"audio_chunk", "tts_complete", "error"}) = {}
    /\ session.total_exchanges = 1
    /\ \A i \in DOMAIN tasks : TaskDone(tasks[i]) /\ ~tasks[i].cancelling

\* the latest event of one of the given types before position j, 0 if none
LastBefore(j, types) ==
    LET before == { k \in DOMAIN events : k < j /\ events[k].type \in types }
    IN  IF before = {} THEN 0 ELSE Max(before)

\* C16: every audio_chunk and every tts_complete event is sent with the
\* session SPEAKING and with no state change since the stream's tts_start:
\* once the state has left SPEAKING the stream sends nothing more; and
\* tts_complete, always with interrupted = false, follows the final chunk.
C16_StreamChecksState ==
    \A j \in DOMAIN events :
        events[j].type \in {"audio_chunk", "tts_complete"} =>
            /\ LastBefore(j, {"tts_start"}) # 0
            /\ LastBefore(j, {"state_changed"}) < LastBefore(j, {"tts_start"})
            /\ events[LastBefore(j, {"state_changed"})].new_state = SPEAKING
            /\ events[j].type = "tts_complete" =>
                  /\ events[j].interrupted = FALSE
                  /\ LastBefore(j, {"audio_chunk"}) > LastBefore(j, {"tts_start"})
                  /\ events[LastBefore(j, {"audio_chunk"})].is_final

\* a stream was cut short by a state change: chunks were left unsent and no
\* tts_complete was sent
C16_Witness ==
    /\ \E i \in DOMAIN tasks :
          /\ TaskDone(tasks[i])
          /\ tasks[i].sent > 0
          /\ tasks[i].sent < tasks[i].total_chunks
    /\ NumEvents("tts_complete") = 0
    /\ NumEvents("audio_chunk") > 0

\* a stream ran to its end
C16_CompleteReached == NumEvents("tts_complete") = 1

\* the chunk the speech-start marker of buffer b stands on
MarkedChunk(b) == b.buffer[b.speech_start_index + 1]

\* a step of process_audio_chunk in which the VAD reports speech_started
SpeechStartedStep == chunks' = chunks + 1 /\ result'.speech_started

\* C17 as stated: on speech_started in LISTENING the session enters
\* SPEECH_DETECTED and the marker stands on the buffered chunk stamped with the
\* reported speech_start_time; in any other state neither the state nor the
\* marker changes.
C17_AsStated ==
    [][SpeechStartedStep =>
        IF session.state = LISTENING
        THEN /\ session'.state = SPEECH_DETECTED
             /\ session'.audio_buffer.speech_start_index # None
             /\ MarkedChunk(session'.audio_buffer).timestamp
                    = result'.speech_start_time
        ELSE /\ session'.state = session.state
             /\ session'.audio_buffer.speech_start_index
                    = session.audio_buffer.speech_start_index]_vars

\* C17: on speech_started in LISTENING the session enters SPEECH_DETECTED and
\* the marker stands on the earliest buffered chunk stamped less than 150 ms
\* away from the reported speech_start_time, which is the chunk before the
\* one the speech started with whenever chunks arrive less than 150 ms apart;
\* in any other state neither the state nor the marker changes.
C17_MarksEarliestWithinTolerance ==
    [][SpeechStartedStep =>
        IF session.state = LISTENING
        THEN LET b == session'.audio_buffer
                 near(i) == Abs(b.buffer[i].timestamp
                                    - result'.speech_start_time) < 150
             IN  /\ session'.state = SPEECH_DETECTED
                 /\ b.speech_start_index # None
                 /\ near(b.speech_start_index + 1)
                 /\ \A i \in 1 .. b.speech_start_index : ~near(i)
        ELSE /\ session'.state = session.state
             /\ session'.audio_buffer.speech_start_index
                    = session.audio_buffer.speech_start_index]_vars

\* speech_started has just been handled in LISTENING and the marker stands on
\* a chunk older than the reported start
C17_Witness ==
    /\ result.speech_started
    /\ result.current_state = LISTENING
    /\ session.state = SPEECH_DETECTED
    /\ session.audio_buffer.speech_start_index # None
    /\ MarkedChunk(session.audio_buffer).timestamp < result.speech_start_time

\* speech_started has just been reported while the pipeline is at work
C17_IgnoredReached ==
    /\ result.speech_started
    /\ result.current_state = PROCESSING
    /\ session.state = PROCESSING

\* the speech_detection events of the given kind sent so far
SpeechEvents(kind) ==
    { j \in DOMAIN events :
        events[j].type = kind /\ "interruptions_count" \notin DOMAIN events[j] }

\* the chunks of a segment are consecutive ones of the cadence
Contiguous(segment) ==
    \A k \in 1 .. Len(segment) - 1 :
        segment[k + 1] = segment[k] + HANDS_FREE_CONFIG.audio_chunk_duration_ms

\* C18 as stated: the segment handed to the pipeline is the data, in arrival
\* order, of every chunk from the one marked at the speech start (stamped
\* within the 150 ms tolerance of the reported start, and not after it)
\* through the chunk at the end timestamp, however many chunks were appended
\* in between and whether or not the buffer was full.
C18_AsStated ==
    \A i \in DOMAIN tasks :
        LET segment == tasks[i].audio_data
            started == events[Min(SpeechEvents("started"))].timestamp
            ended == events[Min(SpeechEvents("ended"))].timestamp
        IN  /\ segment # <<>>
            /\ Contiguous(segment)
            /\ segment[1] <= started
            /\ started - segment[1] < 150
            /\ segment[Len(segment)] = ended

\* an utterance was extracted from a buffer that had evicted chunks since the
\* marking, and the segment begins after the speech did
C18_Witness ==
    /\ Len(tasks) = 1
    /\ session.audio_buffer.total_chunks > HANDS_FREE_CONFIG.audio_buffer_size
    /\ tasks[1].audio_data[1] > events[Min(SpeechEvents("started"))].timestamp

\* C18, what holds: as long as the buffer has evicted nothing, the segment is
\* as stated.
C18_BeforeEviction ==
    session.audio_buffer.total_chunks <= HANDS_FREE_CONFIG.audio_buffer_size
        => C18_AsStated

\* a step of process_audio_chunk in which the VAD reports speech_ended
SpeechEndedStep == chunks' = chunks + 1 /\ result'.speech_ended

\* the segment the step extracts: the buffer with the new chunk and the
\* marker it had before the step cleared it
ExtractedInStep ==
    extract_speech_segment(
        [session'.audio_buffer EXCEPT
            !.speech_start_index = session.audio_buffer.speech_start_index],
        result'.timestamp)

\* the session as it would be had no chunk been marked at the speech start
Unmarked(w) == [w EXCEPT !.s.audio_buffer = clear_speech_markers(@)]

\* C19: on speech_ended with should_process in SPEECH_DETECTED the session
\* enters PROCESSING and creates exactly one pipeline task, which gets the
\* extracted segment and the reported duration; had the extraction yielded
\* nothing the session would be LISTENING with no new task; speech_ended in
\* any other state creates no task and changes no state.
C19_SpeechEndedStartsPipeline ==
    [][/\ (SpeechEndedStep /\ result'.should_process
              /\ session.state = SPEECH_DETECTED)
          => /\ ExtractedInStep # <<>>
             /\ session'.state = PROCESSING
             /\ Len(tasks') = Len(tasks) + 1
             /\ tasks'[Len(tasks')] =
                    NewTask(ExtractedInStep, result'.speech_duration_ms)
             /\ session'.current_processing_task = Len(tasks')
       /\ (SpeechEndedStep /\ result'.should_process
              /\ session.state = SPEECH_DETECTED)
          => LET w == OnSpeechEnded(Unmarked(World(now')), result')
             IN  /\ w.s.state = LISTENING
                 /\ w.tk = tasks
       /\ (SpeechEndedStep /\ session.state # SPEECH_DETECTED)
          => /\ session'.state = session.state
             /\ tasks' = tasks]_vars

\* speech_ended with should_process has just been handled in SPEECH_DETECTED:
\* the session is PROCESSING and its one task waits to be scheduled
C19_Witness ==
    /\ result.speech_ended
    /\ result.should_process
    /\ result.current_state = SPEECH_DETECTED
    /\ session.state = PROCESSING
    /\ Len(tasks) = 1
    /\ tasks[1].pc = "created"

\* speech_ended with should_process has just been reported while the pipeline
\* is at work
C19_IgnoredReached ==
    /\ result.speech_ended
    /\ result.should_process
    /\ result.current_state = PROCESSING
    /\ Len(tasks) = 1

\* the events a step has sent
SentInStep == SubSeq(events', Len(events) + 1, Len(events'))

StageEvents(stage) ==
    { j \in EventsOf("processing_stage") : events[j].stage = stage }

\* the task's pipeline ended in this step right after the Whisper call, with
\* no cancellation asked for
EndsAfterSTT(i) ==
    /\ i \in DOMAIN tasks
    /\ tasks[i].pc = "stt"
    /\ ~tasks[i].cancelling
    /\ tasks'[i].pc = "done"

\* C21: the pipeline calls speech-to-text, then chat-completion, then
\* text-to-speech, each after the previous one returned: the stage
\* announcements llm and tts follow the transcription and llm_response
\* events of the calls before them, and a task is never further than its
\* events; a transcript of fewer than 2 characters after stripping ends the run
\* in LISTENING with no further call and no error event; the events of a run
\* that played to the end are in the order transcription, llm_response,
\* tts_start, audio_chunk(s), tts_complete, processing_complete.
C21_PipelineOrder ==
    [][/\ \A j \in EventsOf("transcription") :
              /\ StrippedLength(events[j].text) >= 2
              /\ LastBefore(j, {"llm_response", "tts_start"})
                     < LastBefore(j, {"processing_stage"})
       /\ \A j \in StageEvents("llm") :
              /\ j - 1 \in EventsOf("transcription")
              /\ LastBefore(j, {"processing_stage"}) \in StageEvents("stt")
       /\ \A j \in StageEvents("tts") :
              /\ j - 1 \in EventsOf("llm_response")
              /\ LastBefore(j, {"processing_stage"}) \in StageEvents("llm")
       /\ \A j \in EventsOf("tts_start") :
              LastBefore(j, {"processing_stage"}) \in StageEvents("tts")
       /\ \A i \in DOMAIN tasks :
              /\ tasks[i].pc = "llm" => /\ StageEvents("llm") # {}
                                        /\ EventsOf("llm_response") = {}
              /\ tasks[i].pc \in {"tts", "stream"}
                     => EventsOf("llm_response") # {}
       /\ \A i \in DOMAIN tasks :
              EndsAfterSTT(i)
                  => /\ session'.state = LISTENING
                     /\ \A k \in DOMAIN SentInStep :
                            SentInStep[k].type = "state_changed"
       /\ \A j \in EventsOf("tts_complete") :
              LET s == LastBefore(j, {"tts_start"})
                  l == LastBefore(s, {"llm_response"})
                  t == LastBefore(l, {"transcription"})
              IN  /\ t > 0
                  /\ \E a \in EventsOf("audio_chunk") : s < a /\ a < j
                  /\ \A a \in EventsOf("audio_chunk") : s < a /\ a < j
                  /\ \A c \in EventsOf("processing_complete") : j < c]_vars

\* a run that played to the end, all six kinds of event sent
C21_Witness ==
    /\ EventsOf("tts_complete") # {}
    /\ EventsOf("processing_complete") # {}
    /\ Len(tasks) = 1
    /\ tasks[1].pc = "done"
    /\ tasks[1].sent = MaxAudioChunks

\* a run that ended with an empty transcript
C21_EmptyReached ==
    /\ Len(tasks) = 1
    /\ tasks[1].pc = "done"
    /\ ~tasks[1].cancelling
    /\ EventsOf("transcription") = {}
    /\ session.state = LISTENING

\* a call of the OpenAI client raises in this step
CollaboratorFails == STTFails \/ LLMFails \/ TTSFails

\* C22 as stated: when the speech-to-text, chat-completion or text-to-speech
\* call fails, the client is sent exactly one error event and the session is
\* back in LISTENING.
C22_AsStated ==
    [][CollaboratorFails
        => /\ Cardinality({ k \in DOMAIN SentInStep :
                              SentInStep[k].type = "error" }) = 1
           /\ session'.state = LISTENING]_vars

\* the GPT client raised, the turn went on with the apology and ended, and no
\* error event was ever sent
C22_Witness ==
    /\ \E j \in EventsOf("llm_response") : events[j].text = Apology
    /\ EventsOf("processing_complete") # {}
    /\ EventsOf("error") = {}
    /\ session.state = LISTENING

\* C22, what holds: a failing call is not repeated and sends no error event;
\* a failing Whisper call ends the turn in LISTENING, a failing GPT call makes
\* the turn go on with the apology, a failing TTS call ends the turn in
\* LISTENING with processing_complete.
C22_FailuresSwallowed ==
    [][/\ EventsOf("error") = {}
       /\ \A stage \in {"stt", "llm", "tts"} :
              Cardinality(StageEvents(stage)) <= Len(tasks)
       /\ STTFails => /\ session'.state = LISTENING
                      /\ EventsOf("transcription") = {}
       /\ LLMFails => /\ session'.state = SPEAKING
                      /\ \E k \in DOMAIN SentInStep :
                             /\ SentInStep[k].type = "llm_response"
                             /\ SentInStep[k].text = Apology
       /\ TTSFails => /\ session'.state = LISTENING
                      /\ \E k \in DOMAIN SentInStep :
                             SentInStep[k].type = "processing_complete"]_vars

\* C23: under the fairness of the event loop and with every executor call
\* ending, a session in PROCESSING or SPEAKING gets to LISTENING, whatever
\* the calls return, whether they raise, and whether the client interrupts
\* or hangs up.
C23_ReachesListening ==
    (session.state \in {PROCESSING, SPEAKING}) ~> (session.state = LISTENING)

\* the session is back in LISTENING after a turn that was interrupted
C23_Witness ==
    /\ session.state = LISTENING
    /\ session.interruptions_count = 1
    /\ \A i \in DOMAIN tasks : TaskDone(tasks[i])
    /\ tasks # <<>>

\* the session is back in LISTENING after the client hung up in mid-turn
C23_CancelledReached ==
    /\ session.state = LISTENING
    /\ handler.pc = "closed"
    /\ \E i \in DOMAIN tasks : TaskDone(tasks[i]) /\ tasks[i].cancelling

\* the TTS call ends in this step without audio: it returned b"" or raised
NoAudio == TTSEnds(Returns(0)) \/ TTSFails

\* the state_changed events among the events of a sequence
StateChanges(sent) ==
    { k \in DOMAIN sent : sent[k].type = "state_changed" }

\* C24 as stated: when text-to-speech produces no audio the session goes
\* from PROCESSING straight to LISTENING, and neither tts_start nor
\* audio_chunk is sent.
C24_AsStated ==
    [][NoAudio
        => /\ session.state = PROCESSING
           /\ session'.state = LISTENING
           /\ \A k \in DOMAIN SentInStep :
                  SentInStep[k].type \notin {"tts_start", "audio_chunk"}]_vars

\* a turn without audio is over: the client was told of SPEAKING, got no
\* tts_start, and the session is LISTENING again
C24_Witness ==
    /\ Len(tasks) = 1
    /\ tasks[1].pc = "done"
    /\ tasks[1].total_chunks = 0
    /\ SpeakingEntries # {}
    /\ EventsOf("tts_start") = {}
    /\ EventsOf("llm_response") # {}
    /\ EventsOf("processing_complete") # {}
    /\ session.state = LISTENING

\* C24, what holds: without audio the turn sends no tts_start, audio_chunk or
\* tts_complete, ends with processing_complete and LISTENING, and the reply
\* went out as llm_response; but the session was put in SPEAKING before the
\* TTS call was made.
C24_SilentTurn ==
    [][NoAudio
        => /\ SpeakingEntries # {}
           /\ session.state \in {SPEAKING, INTERRUPTED, LISTENING}
           /\ session'.state = LISTENING
           /\ EventsOf("llm_response") # {}
           /\ \E k \in DOMAIN SentInStep :
                  SentInStep[k].type = "processing_complete"
           /\ \A k \in DOMAIN SentInStep :
                  SentInStep[k].type \notin
                      {"tts_start", "audio_chunk", "tts_complete", "error"}]_vars

\* the step is a call of pause_session / of resume_session
PauseStep ==
    \E k \in DOMAIN SentInStep : SentInStep[k].type = "session_paused"
ResumeStep ==
    \E k \in DOMAIN SentInStep : SentInStep[k].type = "session_resumed"

\* the step sends exactly one state_changed event, from old to new
Announces(old, new) ==
    /\ Cardinality(StateChanges(SentInStep)) = 1
    /\ \A k \in StateChanges(SentInStep) :
           /\ SentInStep[k].old_state = old
           /\ SentInStep[k].new_state = new

\* C25: pause_session takes the session from whatever state it is in to
\* PAUSED, resume_session takes it from PAUSED to LISTENING, and each sends
\* the state_changed event of its transition.
C25_PauseAndResume ==
    [][/\ PauseStep => /\ session'.state = PAUSED
                       /\ ~session'.is_active
                       /\ Announces(session.state, PAUSED)
       /\ (ResumeStep /\ session.state = PAUSED)
              => /\ session'.state = LISTENING
                 /\ session'.is_active
                 /\ Announces(PAUSED, LISTENING)]_vars

\* the session was paused while SPEAKING and resumed from PAUSED
C25_Witness ==
    /\ \E j \in DOMAIN events :
           /\ events[j].type = "state_changed"
           /\ events[j].old_state = SPEAKING
           /\ events[j].new_state = PAUSED
    /\ Len(events) >= 2
    /\ events[Len(events)].type = "session_resumed"
    /\ events[Len(events) - 1].type = "state_changed"
    /\ events[Len(events) - 1].old_state = PAUSED
    /\ session.state = LISTENING

\* the states pause_session was called in
PausedFrom ==
    { events[j].old_state : j \in { k \in EventsOf("state_changed") :
                                      events[k].new_state = PAUSED } }

\* pauses from PROCESSING and from LISTENING are reached too
C25_FromProcessingReached == PROCESSING \in PausedFrom
C25_FromListeningReached == LISTENING \in PausedFrom

\* the step is an audio_chunk message taken by the endpoint
ChunkMessage == handler.pc = "receive" /\ now' # now

\* C26: while the session is paused process_audio_chunk returns at once: the
\* chunk is taken without an error, and the VAD, the ring buffer, the session
\* state, the tasks and the events sent are what they were, so neither
\* speech_detection nor interrupted is sent.
C26_PausedChunksIgnored ==
    [][(ChunkMessage /\ ~session.is_active)
        => /\ vad' = vad
           /\ session' = session
           /\ tasks' = tasks
           /\ events' = events
           /\ handler' = handler]_vars

\* a chunk has arrived since the session was paused, and it is still paused
C26_Witness ==
    /\ ~session.is_active
    /\ session.state = PAUSED
    /\ handler.pc = "receive"
    /\ EventsOf("session_resumed") = {}
    /\ \E j \in EventsOf("session_paused") : events[j].timestamp < now

\* the pipeline tasks that are neither finished nor asked to stop
InFlight(tk) == { i \in DOMAIN tk : ~TaskDone(tk[i]) /\ ~tk[i].cancelling }

\* C27: at no time is more than one pipeline task in flight without a
\* cancellation asked of it, and that one is current_processing_task; a step
\* that starts a pipeline leaves every earlier task finished or cancelled.
C27_OneInFlight ==
    [][/\ Cardinality(InFlight(tasks)) <= 1
       /\ InFlight(tasks) \subseteq {session.current_processing_task}
       /\ Len(tasks') > Len(tasks)
              => /\ InFlight(tasks') = {Len(tasks')}
                 /\ session'.current_processing_task = Len(tasks')]_vars

\* a second pipeline has just been started while the first was still at
\* work, and the first has been asked to stop
C27_Witness ==
    /\ Len(tasks) = 2
    /\ tasks[1].cancelling
    /\ ~TaskDone(tasks[1])
    /\ tasks[2].pc = "created"
    /\ session.state = PROCESSING

\* the same with the first task at each of its awaits
C27_AtSTTReached == C27_Witness /\ tasks[1].pc = "stt"
C27_AtTTSReached == C27_Witness /\ tasks[1].pc = "tts"
C27_AtStreamReached == C27_Witness /\ tasks[1].pc = "stream"

\* a task asked to stop ends in this step
CancellationDelivered(i) ==
    /\ i \in DOMAIN tasks
    /\ tasks[i].cancelling
    /\ ~TaskDone(tasks[i])
    /\ TaskDone(tasks'[i])

\* C28: a pipeline task that is cancelled ends in its own except clause: the
\* step in which the cancellation is delivered sends one state_changed event,
\* to LISTENING, and nothing else, the task is finished after it, and no
\* error event is sent for it, then or later.
C28_CancellationSwallowed ==
    [][/\ EventsOf("error") = {}
       /\ \A i \in DOMAIN tasks :
              CancellationDelivered(i)
                  => /\ tasks[i].pc \in {"stt", "llm", "tts", "stream"}
                     /\ Len(SentInStep) = 1
                     /\ SentInStep[1].type = "state_changed"
                     /\ SentInStep[1].new_state = LISTENING
                     /\ session'.state = LISTENING]_vars

\* the first task was cancelled by the start of the second and has ended
C28_Witness ==
    /\ Len(tasks) = 2
    /\ tasks[1].cancelling
    /\ TaskDone(tasks[1])
    /\ handler.pc = "receive"
    /\ EventsOf("error") = {}

\* a task cancelled by close() has ended
C28_ByCloseReached ==
    /\ handler.pc = "closed"
    /\ \E i \in DOMAIN tasks : tasks[i].cancelling /\ TaskDone(tasks[i])

\* the tasks suspended in a call to Whisper, GPT or TTS
Awaiting ==
    { i \in DOMAIN tasks :
          tasks[i].pc \in {"stt", "llm", "tts"} /\ ~tasks[i].cancelling }

\* process_audio_chunk passes the chunk to the VAD in this step
VADUpdated == chunks' # chunks

\* the chunks of the ring buffer, oldest first
Buffered == session.audio_buffer.buffer

\* C29: a chunk that arrives for an active session while a pipeline task
\* awaits Whisper, GPT or TTS is buffered and passed to the VAD, whose result
\* carries the chunk's arrival time; chunks are numbered and buffered in the
\* order of their arrival, with increasing timestamps; the VAD is updated
\* only by a call made from the top of the endpoint's loop, never while the
\* call for an earlier chunk is suspended.
C29_ChunksInArrivalOrder ==
    [][/\ (ChunkMessage /\ session.is_active /\ Awaiting # {}) => VADUpdated
       /\ VADUpdated
              => /\ handler.pc = "receive"
                 /\ chunks' = chunks + 1
                 /\ now' > now
                 /\ result'.timestamp = now'
                 /\ session'.audio_buffer.total_chunks
                        = session.audio_buffer.total_chunks + 1
                 /\ Buffered'[Len(Buffered')].timestamp = now'
                 /\ Buffered'[Len(Buffered')].chunk_id
                        = session.audio_buffer.total_chunks
       /\ handler.pc = "interrupt_sleep"
              => /\ ~VADUpdated
                 /\ result' = result
                 /\ session'.audio_buffer = session.audio_buffer
       /\ \A i \in 1..(Len(Buffered) - 1) :
              /\ Buffered[i].timestamp < Buffered[i + 1].timestamp
              /\ Buffered[i].chunk_id + 1 = Buffered[i + 1].chunk_id]_vars

\* an interruption was detected in a chunk that arrived while the pipeline
\* task was waiting for TTS
C29_Witness ==
    /\ handler.pc = "interrupt_sleep"
    /\ result.timestamp = now
    /\ result.interrupt_detected
    /\ \E i \in Awaiting : tasks[i].pc = "tts"

\* a chunk was passed to the VAD while the task was waiting for Whisper
C29_AtSTTReached ==
    /\ result.timestamp = now
    /\ chunks > HappySpeechChunks + HappySilenceChunks
    /\ \E i \in Awaiting : tasks[i].pc = "stt"

\* a chunk was passed to the VAD while the task was waiting for GPT
C29_AtLLMReached ==
    /\ result.timestamp = now
    /\ chunks > HappySpeechChunks + HappySilenceChunks
    /\ \E i \in Awaiting : tasks[i].pc = "llm"

\* the entries appended so far and not removed
History == session.conversation_history

\* the history with the entry that a step appends
Appended == Append(History, History'[Len(History')])

\* the GPT call of a task is submitted in this step
GPTCalled ==
    \E i \in DOMAIN tasks : tasks[i].pc = "stt" /\ tasks'[i].pc = "llm"

\* C30: conversation_history never holds more than 9 entries; at the GPT
\* call it holds at most 8, which with the system prompt makes 9 messages,
\* and it stays as it is until the call returns and the reply is appended,
\* unless the task is cancelled; a step that changes the
\* history appends one entry and leaves a suffix of the result, in the same
\* order, shorter than the result only if that had more than 8 entries.
C30_HistoryBounded ==
    [][/\ Len(History) <= 9
       /\ GPTCalled => /\ Len(History') <= 8
                       /\ Len(Messages(History')) <= 9
                       /\ History'[Len(History')].role = "user"
       /\ \A i \in DOMAIN tasks :
              (tasks[i].pc = "llm" /\ ~tasks[i].cancelling)
                  => \/ History' = History
                     \/ /\ tasks'[i].pc = "tts"
                        /\ History' = Append(History, History'[Len(History')])
                        /\ History'[Len(History')].role = "assistant"
       /\ History' # History
              => /\ History' # <<>>
                 /\ \E k \in 0..Len(History) :
                        History' = SubSeq(Appended, k + 1, Len(Appended))
                 /\ Len(History') < Len(Appended) => Len(Appended) > 8]_vars

\* six turns were answered: the history holds 9 entries, the oldest of them
\* the reply of the second turn, the first three entries having been removed
\* in the fifth turn
C30_Witness ==
    /\ Len(History) = 9
    /\ History[1] = [role |-> "assistant", content |-> "r2"]
    /\ History[9] = [role |-> "assistant", content |-> "r6"]

\* a history of 9 entries was cut to 6 by the next turn
C30_CutFromTenReached ==
    /\ Len(History) = 6
    /\ History[1] = [role |-> "assistant", content |-> "r4"]
    /\ History[6] = [role |-> "user", content |-> "t7"]

\* turns cancelled while GPT was awaited leave their user entries behind
C30_UnansweredReached ==
    /\ Len(History) = MaxTurns
    /\ \A j \in DOMAIN History : History[j].role = "user"

\* the noise window the latest process_chunk call worked on
NoiseWindow == vad.long_term_noise

\* 40% of the samples in the window, rounded down
LowestShare == (2 * Len(NoiseWindow)) \div 5

\* max(base threshold, 2.5 * mean of the lowest k samples), over 2k
ThresholdOverLowest(k) ==
    [num |-> IF 2 * k * vad.threshold >= 5 * SumLowest(NoiseWindow, k)
             THEN 2 * k * vad.threshold ELSE 5 * SumLowest(NoiseWindow, k),
     den |-> 2 * k]

FracEq(a, b) == a.num * b.den = b.num * a.den

BaseThreshold == [num |-> vad.threshold, den |-> 1]

\* C31, as stated: from 10 samples on the threshold is the larger of the
\* base threshold and 2.5 times the mean of the lowest 40% of the window;
\* before that it is the base threshold.
C31_AsStated ==
    chunks > 0
        => IF Len(NoiseWindow) >= 10
           THEN FracEq(result.adaptive_threshold,
                       ThresholdOverLowest(LowestShare))
           ELSE FracEq(result.adaptive_threshold, BaseThreshold)

\* ten samples of 0.01 in the window: 2.5 times their floor is 0.025, and
\* the threshold is still the base threshold, 0.015
C31_Witness ==
    /\ chunks > 0
    /\ Len(NoiseWindow) = 10
    /\ \A i \in DOMAIN NoiseWindow : NoiseWindow[i] = 100
    /\ FracEq(result.adaptive_threshold, BaseThreshold)

\* What holds: the threshold is never below the base threshold; it is the
\* base threshold up to 10 samples; from 11 samples on it is the larger of
\* the base threshold and 2.5 times a twentieth of the sum of the lowest 20
\* samples, or of all of them while there are fewer than 20, which is the
\* stated value when the window is full.
C31_ThresholdFromLowestTwenty ==
    chunks > 0
        => /\ ~FracGT(BaseThreshold, result.adaptive_threshold)
           /\ Len(NoiseWindow) <= 10
                  => FracEq(result.adaptive_threshold, BaseThreshold)
           /\ Len(NoiseWindow) > 10
                  => FracEq(result.adaptive_threshold,
                            [num |-> IF 40 * vad.threshold
                                          >= 5 * SumLowest(NoiseWindow, 20)
                                     THEN 40 * vad.threshold
                                     ELSE 5 * SumLowest(NoiseWindow, 20),
                             den |-> 40])
           /\ Len(NoiseWindow) = 50
                  => FracEq(result.adaptive_threshold,
                            ThresholdOverLowest(LowestShare))

\* a window of 11 samples whose threshold is below the stated one
C31_ElevenReached ==
    /\ chunks > 0
    /\ Len(NoiseWindow) = 11
    /\ FracGT(ThresholdOverLowest(LowestShare), result.adaptive_threshold)

\* a full window with a threshold above the base threshold
C31_FullWindowReached ==
    /\ chunks > 0
    /\ Len(NoiseWindow) = 50
    /\ FracGT(result.adaptive_threshold, BaseThreshold)

\* the sample two bytes stand for in two's complement
TwosComplement(lo, hi) ==
    IF hi < 128 THEN lo + 256 * hi ELSE 0 - (256 * (255 - hi) + (256 - lo))

\* the sum of the squares of the 16-bit samples of an even-length buffer
RECURSIVE SumOfSquares(_)
SumOfSquares(audio_data) ==
    IF audio_data = <<>> THEN 0
    ELSE TwosComplement(audio_data[1], audio_data[2])
             * TwosComplement(audio_data[1], audio_data[2])
         + SumOfSquares(SubSeq(audio_data, 3, Len(audio_data)))

\* C32: for every payload buffered, _calculate_amplitude gives 0 for fewer
\* than 2 bytes and for bytes that are all zero; for an even number of bytes
\* it gives the root of the mean square of the little-endian signed 16-bit
\* samples over 32768, which is not negative and not above 1; the amplitude
\* buffered with a payload is this value, the same for the same payload.
C32_AmplitudeOfBytes ==
    /\ \A i \in DOMAIN Buffered :
           LET audio_data == Buffered[i].data
               amplitude == _calculate_amplitude(audio_data)
           IN  /\ Len(audio_data) < 2 => amplitude.sum_squares = 0
               /\ (\A j \in DOMAIN audio_data : audio_data[j] = 0)
                      => amplitude.sum_squares = 0
               /\ Len(audio_data) % 2 = 0 /\ audio_data # <<>>
                      => /\ amplitude.samples = Len(audio_data) \div 2
                         /\ amplitude.sum_squares = SumOfSquares(audio_data)
               /\ amplitude.sum_squares >= 0
               /\ amplitude.samples > 0
               /\ amplitude.sum_squares \div amplitude.samples <= 32768 * 32768
               /\ Buffered[i].amplitude = AmplitudeUnits(amplitude)
               /\ Buffered[i].amplitude \in 0..10000
    /\ \A i, j \in DOMAIN Buffered :
           Buffered[i].data = Buffered[j].data
               => Buffered[i].amplitude = Buffered[j].amplitude

\* a payload of a negative and a positive sample, -1 and 32767, is buffered
\* with the amplitude 0.7070
C32_Witness ==
    \E i \in DOMAIN Buffered :
        /\ Buffered[i].data = <<255, 255, 255, 127>>
        /\ Buffered[i].amplitude = 7070

\* a single byte is buffered with amplitude 0
C32_ShortReached ==
    \E i \in DOMAIN Buffered :
        Buffered[i].data = <<255>> /\ Buffered[i].amplitude = 0

\* the same payload came twice
C32_TwiceReached ==
    /\ Len(Buffered) = 2
    /\ Buffered[1].data = <<1, 127>>
    /\ Buffered[2].data = <<1, 127>>

\* _update_state(SPEAKING) is called in this step
EntersSpeaking ==
    \E j \in DOMAIN SentInStep :
        /\ SentInStep[j].type = "state_changed"
        /\ SentInStep[j].new_state = SPEAKING

\* a pipeline task passes from its GPT call to its TTS call in this step
BeginsToSpeak ==
    \E i \in DOMAIN tasks : tasks[i].pc = "llm" /\ tasks'[i].pc = "tts"

\* the detector is switched on, or its speaking_start_time set, in this step
DetectorEnabledInStep ==
    \/ ~vad.interrupt_detection_enabled /\ vad'.interrupt_detection_enabled
    \/ /\ vad'.speaking_start_time # vad.speaking_start_time
       /\ vad'.speaking_start_time # 0

\* the echo window is armed in this step
EchoArmedInStep ==
    /\ vad'.echo_suppression_until # vad.echo_suppression_until
    /\ vad'.echo_suppression_until # 0

AudioChunksSent(log) == { j \in DOMAIN log : log[j].type = "audio_chunk" }

\* C33: the session enters SPEAKING exactly when a pipeline task passes from
\* its GPT call to its TTS call, once per task; that step enables the
\* detector with speaking_start_time = now and arms the echo window for
\* 2000 ms, and no other step does either; no audio_chunk is sent in that
\* step, and every audio_chunk is sent after an entry to SPEAKING, in the
\* state SPEAKING with the detector still enabled.
C33_ArmedOnceBeforeAudio ==
    [][/\ EntersSpeaking <=> BeginsToSpeak
       /\ EntersSpeaking
              => /\ vad'.interrupt_detection_enabled
                 /\ vad'.speaking_start_time = now'
                 /\ vad'.echo_suppression_until
                        = now' + HANDS_FREE_CONFIG.echo_suppression_duration_ms
                 /\ AudioChunksSent(SentInStep) = {}
                 /\ Cardinality({ j \in DOMAIN SentInStep :
                                      SentInStep[j].type = "state_changed" }) = 1
       /\ (DetectorEnabledInStep \/ EchoArmedInStep) => EntersSpeaking
       /\ AudioChunksSent(SentInStep) # {}
              => /\ session.state = SPEAKING
                 /\ vad.interrupt_detection_enabled
                 /\ vad.speaking_start_time # 0
                 /\ SpeakingEntries # {}
       /\ Cardinality(SpeakingEntries) <= Len(tasks)]_vars

\* the second turn has entered SPEAKING and sent audio, the first one too
C33_Witness ==
    /\ Cardinality(SpeakingEntries) = 2
    /\ \E j \in AudioChunksSent(events) : j > Max(SpeakingEntries)
    /\ \E j \in AudioChunksSent(events) : j < Max(SpeakingEntries)

\* C34, as stated: while a task that was not cancelled runs its Whisper or
\* GPT stage the state is PROCESSING, and while any such task is in flight
\* the state is neither LISTENING nor SPEECH_DETECTED.
C34_AsStated ==
    /\ \A i \in InFlight(tasks) :
           tasks[i].pc \in {"stt", "llm"} => session.state = PROCESSING
    /\ InFlight(tasks) # {} => session.state \notin {LISTENING, SPEECH_DETECTED}

\* an interruption was confirmed while TTS was generating: the handler has
\* returned, the session listens, and the pipeline task is still waiting for
\* the audio, with no cancellation asked of it
C34_Witness ==
    /\ session.state = LISTENING
    /\ handler.pc = "receive"
    /\ EventsOf("interrupted") # {}
    /\ \E i \in InFlight(tasks) : tasks[i].pc = "tts"

\* What holds while the client neither pauses nor resumes: the state is
\* PROCESSING throughout the Whisper and GPT stages, and a task in flight
\* with the session in LISTENING is past its GPT call and an interruption
\* has been confirmed.
C34_ProcessingUntilSpeaking ==
    /\ \A i \in InFlight(tasks) :
           tasks[i].pc \in {"created", "stt", "llm"}
               => session.state = PROCESSING
    /\ \A i \in InFlight(tasks) :
           session.state = LISTENING
               => /\ tasks[i].pc \in {"tts", "stream"}
                  /\ EventsOf("interrupted") # {}
    /\ session.state # SPEECH_DETECTED \/ InFlight(tasks) = {}

\* with two utterances: the cancellation handler of the first task has put
\* the session in LISTENING while the second task runs its Whisper stage
C34_OverwrittenReached ==
    /\ Len(tasks) = 2
    /\ tasks[1].cancelling /\ TaskDone(tasks[1])
    /\ 2 \in InFlight(tasks) /\ tasks[2].pc = "stt"
    /\ session.state = LISTENING
    /\ events[Len(events)].type = "state_changed"
    /\ events[Len(events)].old_state = PROCESSING

\* the VAD ends, in this step, a speech that the session is not following:
\* the session listens, and the VAD has had speech active since a chunk it
\* processed in PROCESSING or SPEAKING
UnannouncedSpeechEnds ==
    /\ VADUpdated
    /\ session.state = LISTENING
    /\ vad.is_speech_active
    /\ result'.speech_ended
    /\ result'.should_process

\* C35, as stated: a speech whose start the VAD confirmed while the session
\* was PROCESSING or SPEAKING and which goes on after the return to
\* LISTENING is followed by the session, and its end starts a pipeline.
C35_AsStated ==
    [][/\ (VADUpdated /\ session.state = LISTENING /\ vad.is_speech_active
              /\ result'.has_voice)
           => session'.state = SPEECH_DETECTED
       /\ UnannouncedSpeechEnds => Len(tasks') > Len(tasks)]_vars

\* the speech that interrupted the assistant has ended, long enough to be
\* processed, with the session in LISTENING: no second pipeline was started
C35_Witness ==
    /\ result.timestamp = now
    /\ result.speech_ended
    /\ result.should_process
    /\ result.current_state = LISTENING
    /\ EventsOf("interrupted") # {}
    /\ session.state = LISTENING
    /\ Len(tasks) = 1

\* What holds: speech_started is acted on only in LISTENING; a speech the
\* VAD holds active when the session comes back to LISTENING never takes the
\* session to SPEECH_DETECTED, and its end creates no task and sends no
\* speech_detection event.
C35_UnannouncedSpeechDropped ==
    [][/\ (VADUpdated /\ session'.state = SPEECH_DETECTED
              /\ session.state # SPEECH_DETECTED)
           => session.state = LISTENING /\ result'.speech_started
       /\ (VADUpdated /\ session.state = LISTENING /\ vad.is_speech_active)
           => /\ session'.state = LISTENING
              /\ tasks' = tasks
              /\ \A j \in DOMAIN SentInStep :
                     SentInStep[j].type = "audio_status"]_vars

\* between pause_session and the next resume_session or close
DuringPause ==
    /\ ~session.is_active
    /\ handler.pc # "closed"

\* the step is the endpoint's close of the session
CloseStep == handler.pc # "closed" /\ handler'.pc = "closed"

\* C36, as stated: from pause_session to resume_session or close the state
\* is PAUSED, interruption detection stays off and no audio_chunk is sent,
\* whatever the pipeline task in flight does.
C36_AsStated ==
    [][(DuringPause /\ ~ResumeStep /\ ~CloseStep)
           => /\ session.state = PAUSED
              /\ session'.state = PAUSED
              /\ ~vad'.interrupt_detection_enabled
              /\ AudioChunksSent(SentInStep) = {}]_vars

\* paused while GPT was awaited: the session has since entered SPEAKING and
\* sent audio, and is still paused
C36_Witness ==
    /\ DuringPause
    /\ PausedFrom = {PROCESSING}
    /\ session.state = SPEAKING
    /\ vad.interrupt_detection_enabled
    /\ \E j \in AudioChunksSent(events) : j > Max(EventsOf("session_paused"))

\* the turn of a paused session has ended: the session is in LISTENING and
\* takes no audio
C36_ListeningReached ==
    /\ DuringPause
    /\ session.state = LISTENING
    /\ NumEvents("processing_complete") = 1

\* What holds: the pause lasts until resume_session or close, the chunk
\* handler leaves a paused session as it is, and the state of a paused
\* session changes only in a step of a pipeline task.
C36_PauseStopsIntakeOnly ==
    [][(DuringPause /\ ~ResumeStep /\ ~CloseStep)
           => /\ ~session'.is_active
              /\ tasks' = tasks
                     => /\ session' = session
                        /\ vad' = vad
                        /\ events' = events]_vars

\* the session leaves SPEECH_DETECTED in this step
LeavesSpeechDetected ==
    session.state = SPEECH_DETECTED /\ session'.state # SPEECH_DETECTED

\* C37, as stated: the session leaves SPEECH_DETECTED only in a chunk whose
\* VAD result is speech_ended, in pause_session or in resume_session.
C37_AsStated ==
    [][LeavesSpeechDetected
           => \/ VADUpdated /\ result'.speech_ended
              \/ PauseStep
              \/ ResumeStep]_vars

\* the task of the first utterance has ended while the session followed the
\* second one, and its last statement put the session in LISTENING: the
\* user is still speaking
C37_Witness ==
    /\ Len(tasks) = 1
    /\ TaskDone(tasks[1])
    /\ ~tasks[1].cancelling
    /\ session.state = LISTENING
    /\ vad.is_speech_active
    /\ events[Len(events)].type = "state_changed"
    /\ events[Len(events)].old_state = SPEECH_DETECTED
    /\ events[Len(events)].new_state = LISTENING

\* the reply to the first utterance took the session from SPEECH_DETECTED to
\* SPEAKING
C37_SpeakingReached ==
    \E j \in SpeakingEntries : events[j].old_state = SPEECH_DETECTED

\* What holds: the session leaves SPEECH_DETECTED in a chunk whose VAD result
\* is speech_ended, in pause_session, in resume_session, or in a step of a
\* pipeline task, which sets SPEAKING after GPT and LISTENING at its end,
\* whatever the state is.
C37_LeftByPipelineToo ==
    [][LeavesSpeechDetected
           => \/ VADUpdated /\ result'.speech_ended
              \/ PauseStep
              \/ ResumeStep
              \/ /\ tasks' # tasks
                 /\ session'.state \in {SPEAKING, LISTENING}]_vars

\* C38, as stated: no two neighbours in conversation_history have the same
\* role, and every user entry but the last is followed by an assistant
\* entry.
C38_AsStated ==
    \A j \in 1..(Len(History) - 1) :
        /\ History[j].role # History[j + 1].role
        /\ History[j].role = "user" => History[j + 1].role = "assistant"

\* the second turn was cancelled while GPT was awaited and the third turn
\* has been transcribed: two user entries in a row
C38_Witness ==
    /\ Len(tasks) = 3
    /\ TaskDone(tasks[2]) /\ tasks[2].cancelling
    /\ History = << [role |-> "user", content |-> "t1"],
                    [role |-> "assistant", content |-> "r1"],
                    [role |-> "user", content |-> "t2"],
                    [role |-> "user", content |-> "t3"] >>

\* What holds: an assistant entry that is not the oldest follows the user
\* entry of its own turn, so no two assistant entries are neighbours; a
\* user entry is followed by the reply of its turn or, if the turn was
\* cancelled before GPT returned, by the user entry of a later turn.
C38_RepliesFollowTheirQuestion ==
    \A j \in 1..(Len(History) - 1) :
        \E n \in 1..MaxTurns :
            /\ History[j + 1].role = "assistant"
                   => /\ History[j + 1].content = TurnReply[n]
                      /\ History[j] = [role |-> "user", content |-> TurnText[n]]
            /\ History[j + 1].role = "user"
                   => /\ History[j + 1].content = TurnText[n]
                      /\ History[j].content \in
                             { TurnText[k] : k \in 1..(n - 1) }
                                 \cup { TurnReply[k] : k \in 1..(n - 1) }

\* with two utterances through the VAD: the first cancelled while GPT was
\* awaited, the second transcribed
C38_TwoUtterancesReached ==
    /\ Len(History) >= 2
    /\ History[1].role = "user"
    /\ History[2].role = "user"

-----------------------------------------------------------------------------
(* Reconnection of the ElevenLabs client *)

\* a _message_handler task that may still act: it is reading the socket or
\* sleeping before a reconnect
HandlerAlive(i) == client.handlers[i].pc \in {"receive", "sleep"}

\* an established connection has closed and nothing is left that would
\* connect again
ReconnectAbandoned ==
    /\ client.main = "running"
    /\ client.handlers # <<>>
    /\ ~client.is_connected
    /\ \A i \in DOMAIN client.handlers : ~HandlerAlive(i)

\* C39 as stated: after an established connection closes unexpectedly the
\* client keeps retrying, waiting min(2^n, 30) seconds before attempt n,
\* until a connection succeeds or max_reconnect_attempts (5) attempts have
\* been made; a failed attempt is followed by the next one, and the counter
\* stays within max_reconnect_attempts and is 0 after a successful connect.
\* As a state predicate: every attempt waited min(2^n, 30) s, the counter is
\* within its maximum and 0 while connected, and the client is found without
\* a connection and without anything left to retry only once it has made
\* max_reconnect_attempts attempts.
C39_AsStated ==
    /\ \A k \in DOMAIN client.attempts :
           client.attempts[k].delay = ReconnectDelay(client.attempts[k].n)
    /\ client.reconnect_attempts <= client.max_reconnect_attempts
    /\ client.is_connected => client.reconnect_attempts = 0
    /\ ReconnectAbandoned =>
           client.reconnect_attempts = client.max_reconnect_attempts

\* the first reconnect attempt has failed: the counter stands at 1, the task
\* that made the attempt has ended and no other task is there to make a
\* second
C39_Witness ==
    /\ ReconnectAbandoned
    /\ client.attempts # <<>>
    /\ ~client.attempts[Len(client.attempts)].connected
    /\ client.reconnect_attempts = 1

\* what the code does: one attempt per closed connection, made 2 s after the
\* close with the counter at 1; the counter is 0 while connected and never
\* above 1, since a success resets it and a failure ends the retrying; and
\* every failed attempt is the last attempt of the run
C39_OneAttemptPerClose ==
    /\ client.reconnect_attempts \in {0, 1}
    /\ client.is_connected => client.reconnect_attempts = 0
    /\ \A k \in DOMAIN client.attempts :
           /\ client.attempts[k].n = 1
           /\ client.attempts[k].delay = ReconnectDelay(1)
           /\ client.attempts[k].delay = 2
           /\ ~client.attempts[k].connected => k = Len(client.attempts)
    /\ Len(client.attempts) <= Len(client.handlers)

\* a reconnect attempt succeeded, the new connection closed as well and the
\* attempt after that one was again the first of its series
C39_ReconnectedTwiceReached ==
    /\ Len(client.attempts) >= 2
    /\ client.attempts[1].connected
    /\ client.is_connected
    /\ client.reconnect_attempts = 0

-----------------------------------------------------------------------------
(* Playback of the audio handler *)

\* the playback threads that have not ended
WorkersAlive == {i \in DOMAIN player.workers : player.workers[i].pc # "done"}

\* the playback threads inside the loop of _playback_worker
WorkersServing ==
    {i \in DOMAIN player.workers :
        player.workers[i].pc \in {"loop", "get", "empty", "write"}}

\* the chunks a worker has taken from the queue and not yet dealt with
InHand ==
    {player.workers[i].item : i \in WorkersServing} \ {0}

\* C40 as stated: every chunk passed to play_audio is eventually written to
\* the output stream by a playback worker, for every interleaving of
\* play_audio with the worker's idle-timeout exit and _stop_playback: no
\* chunk is left in playback_queue while no worker is running, and at most
\* one playback worker runs at a time.  As a state predicate: once
\* play_audio has returned, a queue that holds a chunk has a live worker; no
\* two workers are alive together; and no chunk taken from the queue went
\* unwritten.
C40_AsStated ==
    /\ (player.caller = "idle" /\ player.playback_queue # <<>>)
           => WorkersAlive # {}
    /\ Cardinality(WorkersAlive) <= 1
    /\ player.dropped = {}

\* play_audio put a chunk after the idle worker had found the queue empty
\* and before it cleared is_playing: the call has returned without starting
\* a thread, the worker has ended, and the chunk sits in the queue
C40_Witness ==
    /\ player.caller = "idle"
    /\ player.playback_queue # <<>>
    /\ player.workers # <<>>
    /\ WorkersAlive = {}
    /\ ~player.is_playing

\* a second worker was started while the first was still inside
\* _stop_playback
C40_TwoWorkersReached ==
    /\ Cardinality(WorkersAlive) = 2
    /\ player.is_playing

\* the ending worker closed the stream the next worker was given: that
\* worker took a chunk from the queue and could not write it
C40_DroppedReached ==
    /\ player.dropped # {}
    /\ player.caller = "idle"
    /\ WorkersAlive = {}

\* what the code does keep: at most one worker is inside the loop, so the
\* chunks that are written are written once each and in the order they were
\* passed in; a chunk passed in is in the queue, in a worker's hand, written
\* or dropped, and in one of them only
C40_WrittenOnceInOrder ==
    /\ Cardinality(WorkersServing) <= 1
    /\ \A j, k \in DOMAIN player.written :
           j < k => player.written[j] < player.written[k]
    /\ \A c \in 1..player.played :
           Cardinality({x \in 1..4 :
               \/ x = 1 /\ \E j \in DOMAIN player.playback_queue :
                               player.playback_queue[j] = c
               \/ x = 2 /\ c \in InHand
               \/ x = 3 /\ \E j \in DOMAIN player.written :
                               player.written[j] = c
               \/ x = 4 /\ c \in player.dropped}) = 1

\* without a race the chunks all arrive: every chunk was written and the
\* worker has ended
C40_AllWrittenReached ==
    /\ player.played = MaxPlayChunks
    /\ Len(player.written) = MaxPlayChunks
    /\ WorkersAlive = {}
    /\ player.caller = "idle"

=============================================================================
